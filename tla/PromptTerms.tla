---------------------------- MODULE PromptTerms ----------------------------
(***************************************************************************)
(* The words the transcriber is primed with: entity_dictionary.py and the  *)
(* prompt of local-receiver/app.py.  The manual dictionary comes first,    *)
(* then the names of an entity index kept in another repository, read      *)
(* through a cache.                                                        *)
(*                                                                         *)
(* A term is a number, in the order of the strings; Length is what it      *)
(* costs.  Lines are stripped already, Blank is an empty line or a         *)
(* comment.  A day is a number, 0 no date or one that cannot be read.      *)
(* Time passes in minutes.  Only the worker of the recordings builds       *)
(* prompts, so a call is one step.                                         *)
(***************************************************************************)
EXTENDS Integers, Sequences, FiniteSets, SequencesExt

CONSTANTS Length,                     \* [terms -> length]
          Indexes,                    \* contents index.json may have
          Dictionaries,               \* contents of the manual dictionary
          AllowedKinds, MinMentions, Cutoff,
          EntityMaxTerms, EntityMaxChars,
          PromptMaxTerms, PromptMaxChars,
          RefreshMinutes,             \* ENTITY_DICTIONARY_REFRESH_SECONDS
          MaxNow                      \* bound on the clock

Terms == DOMAIN Length
Blank == 0
Lesser(a, b) == IF a < b THEN a ELSE b
Greater(a, b) == IF a < b THEN b ELSE a
Lifetime == Greater(1, RefreshMinutes)
RetryAfter == Lesser(5, Lifetime)

Entities == [kind : STRING, name : Terms, mention_count : Int, last_seen : Nat,
             aliases : Seq(Terms)]

ASSUME PromptAssumption ==
    /\ Length \in [Terms -> Nat \ {0}] /\ Terms \subseteq Nat \ {0}
    /\ \A entities \in Indexes : entities \in Seq(Entities)
    /\ \A lines \in Dictionaries : lines \in Seq(Terms \cup {Blank})
    /\ MinMentions \in Int /\ Cutoff \in Nat
    /\ RefreshMinutes \in Nat /\ MaxNow \in Nat
    /\ EntityMaxTerms \in Nat /\ EntityMaxChars \in Nat
    /\ PromptMaxTerms \in Nat /\ PromptMaxChars \in Nat

VARIABLES
    include_aliases,              \* ENTITY_DICTIONARY_INCLUDE_ALIASES
    index, origin,                \* index.json; where it can be read from
    manual,                       \* the lines of WHISPER_DICTIONARY
    now,
    cache,                        \* _entity_dictionary_cache
    read,                         \* history: the index read last, and when
    failed,                       \* history: when a refresh failed last
    prompt                        \* history: the last prompt and what went in

promptVars == <<include_aliases, index, origin, manual, now, cache, read, failed, prompt>>
sources == <<include_aliases, index, origin, manual>>

Never == -100                     \* longer ago than any lifetime
NoIndex == << >>

-----------------------------------------------------------------------------
(* Terms under a budget of terms and characters.                           *)

(* add_term: a term seen before is passed over, one that does not fit ends *)
(* the list; the delimiter takes a character                               *)
AddTerm(list, t, max_terms, max_chars) ==
    LET extra == Length[t] + (IF list.terms = << >> THEN 0 ELSE 1) IN
    IF list.full \/ t \in Range(list.terms) THEN list
    ELSE IF Len(list.terms) >= max_terms \/ list.chars + extra > max_chars
         THEN [list EXCEPT !.full = TRUE]
         ELSE [list EXCEPT !.terms = Append(@, t), !.chars = @ + extra]

NoTerms == [terms |-> << >>, chars |-> 0, full |-> FALSE]

(* Mutant: a term that does not fit is passed over.                        *)
FillAround(terms, max_terms, max_chars) ==
    LET list[n \in 0 .. Len(terms)] ==
            IF n = 0 THEN NoTerms
            ELSE [AddTerm(list[n - 1], terms[n], max_terms, max_chars) EXCEPT !.full = FALSE]
    IN  list[Len(terms)].terms

Fill(terms, max_terms, max_chars) ==
    LET list[n \in 0 .. Len(terms)] ==
            IF n = 0 THEN NoTerms ELSE AddTerm(list[n - 1], terms[n], max_terms, max_chars)
    IN  list[Len(terms)].terms

(* The members of T in a list, in their order.                             *)
Only(list, T) ==
    LET kept[n \in 0 .. Len(list)] ==
            IF n = 0 THEN << >>
            ELSE IF list[n] \in T THEN Append(kept[n - 1], list[n]) ELSE kept[n - 1]
    IN  kept[Len(list)]

(* _clean_term: names of one character are noise                           *)
Clean == {t \in Terms : Length[t] >= 2}

(* select_entity_terms                                                     *)
IsRecent(e) == e.last_seen >= Cutoff /\ e.last_seen # 0

Candidates(entities) ==
    {i \in DOMAIN entities :
        LET e == entities[i]
        IN  /\ e.kind \in AllowedKinds /\ e.name \in Clean
            /\ e.mention_count >= MinMentions \/ IsRecent(e)}

(* Mutant: the most mentioned come first, recent or not.                   *)
BeforeByMentions(entities, i, j) ==
    LET a == entities[i]  b == entities[j] IN
    \/ a.mention_count > b.mention_count
    \/ a.mention_count = b.mention_count /\ a.name > b.name
    \/ a.mention_count = b.mention_count /\ a.name = b.name /\ i < j

(* recent ones, then the last seen, the most mentioned, the greater name;  *)
(* the sort is stable                                                      *)
Key(entities, i) ==
    LET e == entities[i]
    IN  <<IF IsRecent(e) THEN 1 ELSE 0, e.last_seen, e.mention_count, e.name, -i>>

Before(entities, i, j) ==
    LET a == Key(entities, i)  b == Key(entities, j)
    IN  \E k \in 1 .. 5 : a[k] > b[k] /\ \A l \in 1 .. k - 1 : a[l] = b[l]

Ranked(entities) ==
    LET all == Candidates(entities)
        before(i) == {j \in all : Before(entities, j, i)}
    IN  [k \in 1 .. Cardinality(all) |-> CHOOSE i \in all : Cardinality(before(i)) = k - 1]

NamesOf(e, aliases) == <<e.name>> \o (IF aliases THEN Only(e.aliases, Clean) ELSE << >>)

Names(entities, aliases) ==
    LET ranked == Ranked(entities)
    IN  FlattenSeq([k \in DOMAIN ranked |-> NamesOf(entities[ranked[k]], aliases)])

SelectEntityTerms(entities, aliases) ==
    Fill(Names(entities, aliases), EntityMaxTerms, EntityMaxChars)

(* load_dictionary_terms, without its comments and blank lines; duplicates *)
(* are passed over by the merge again                                      *)
LoadDictionaryTerms(lines) == Only(lines, Terms)

-----------------------------------------------------------------------------
PromptInit ==
    /\ include_aliases \in BOOLEAN
    /\ index \in Indexes /\ origin = "readable" /\ manual \in Dictionaries
    /\ now = 0
    /\ cache = [terms |-> << >>, expires_at |-> 0]
    /\ read = [index |-> NoIndex, at |-> Never] /\ failed = Never
    /\ prompt = [terms |-> << >>, manual |-> << >>, auto |-> << >>, built |-> 0, read |-> 0,
                 failed |-> 0]

(* load_transcription_prompt, given what load_entity_dictionary_terms      *)
(* returned, and when that was read                                        *)
Build(auto, at) ==
    prompt' = [terms |-> Fill(LoadDictionaryTerms(manual) \o auto, PromptMaxTerms, PromptMaxChars),
               manual |-> manual, auto |-> auto, built |-> now, read |-> at,
               failed |-> failed']

Expired == now >= cache.expires_at

FromCache ==
    /\ ~Expired
    /\ UNCHANGED <<sources, now, cache, read, failed>>
    /\ Build(cache.terms, read.at)

(* no clone, and no token for GitHub: as good as an empty index            *)
Loaded == IF origin = "none" THEN NoIndex ELSE index

Refresh ==
    /\ Expired /\ origin # "broken"
    /\ read' = [index |-> Loaded, at |-> now]
    /\ UNCHANGED <<sources, now, failed>>
    /\ LET terms == SelectEntityTerms(Loaded, include_aliases)
       IN  cache' = [terms |-> terms, expires_at |-> now + Lifetime] /\ Build(terms, now)

(* the new terms are cached, but their file cannot be written: the call    *)
(* still returns the previous ones                                         *)
RefreshUnwritten ==
    /\ Expired /\ origin # "broken"
    /\ LET terms == SelectEntityTerms(Loaded, include_aliases)
       IN  /\ terms # << >>
           /\ cache' = [terms |-> terms, expires_at |-> now + RetryAfter]
    /\ read' = [index |-> Loaded, at |-> now] /\ failed' = now
    /\ Build(cache.terms, read.at)
    /\ UNCHANGED <<sources, now>>

(* Mutant: an outage empties the vocabulary.                               *)
RefreshFailsEmpty ==
    /\ Expired /\ origin = "broken"
    /\ cache' = [terms |-> << >>, expires_at |-> now + RetryAfter]
    /\ failed' = now /\ UNCHANGED read
    /\ Build(cache.terms, read.at)
    /\ UNCHANGED <<sources, now>>

(* Mutant: a failure is remembered as long as a success.                   *)
RefreshFailsLong ==
    /\ Expired /\ origin = "broken"
    /\ cache' = [cache EXCEPT !.expires_at = now + Lifetime]
    /\ failed' = now /\ UNCHANGED read
    /\ Build(cache.terms, read.at)
    /\ UNCHANGED <<sources, now>>

(* network, token, JSON, or a bad setting                                  *)
RefreshFails ==
    /\ Expired /\ origin = "broken"
    /\ cache' = [cache EXCEPT !.expires_at = now + RetryAfter]
    /\ failed' = now /\ UNCHANGED read
    /\ Build(cache.terms, read.at)
    /\ UNCHANGED <<sources, now>>

(* the sources change under the receiver                                   *)
SourcesChange ==
    /\ \/ origin' \in {"readable", "none", "broken"} \ {origin} /\ UNCHANGED <<index, manual>>
       \/ index' \in Indexes \ {index} /\ UNCHANGED <<origin, manual>>
       \/ manual' \in Dictionaries \ {manual} /\ UNCHANGED <<origin, index>>
    /\ UNCHANGED <<include_aliases, now, cache, read, failed, prompt>>

Tick ==
    /\ now < MaxNow
    /\ now' = now + 1
    /\ UNCHANGED <<sources, cache, read, failed, prompt>>

(* the cache is in memory                                                  *)
Restart ==
    /\ cache' = [terms |-> << >>, expires_at |-> 0]
    /\ read' = [index |-> NoIndex, at |-> Never] /\ failed' = Never
    /\ UNCHANGED <<sources, now, prompt>>

PromptNext ==
    \/ FromCache \/ Refresh \/ RefreshUnwritten \/ RefreshFails
    \/ SourcesChange \/ Tick \/ Restart

PromptSpec == PromptInit /\ [][PromptNext]_promptVars

-----------------------------------------------------------------------------
(* What a list cut to a budget should be, said without a loop: the first   *)
(* occurrences among its first n terms, in their order; the term after     *)
(* these is a new one that the budget does not allow.                      *)
Firsts(terms, n) == {i \in 1 .. n : \A j \in 1 .. i - 1 : terms[j] # terms[i]}

Cost(terms) ==
    LET chars[n \in 0 .. Len(terms)] == IF n = 0 THEN 0 ELSE chars[n - 1] + Length[terms[n]]
    IN  chars[Len(terms)] + Greater(0, Len(terms) - 1)

Fits(terms, max_terms, max_chars) == Len(terms) <= max_terms /\ Cost(terms) <= max_chars

IsCut(p, terms, n) ==
    /\ Len(p) = Cardinality(Firsts(terms, n))
    /\ \A i \in Firsts(terms, n) : p[Cardinality(Firsts(terms, i))] = terms[i]

IsLongestPrefix(p, terms, max_terms, max_chars) ==
    /\ Fits(p, max_terms, max_chars)
    /\ \E n \in 0 .. Len(terms) :
          /\ IsCut(p, terms, n)
          /\ n < Len(terms) => /\ n + 1 \in Firsts(terms, n + 1)
                               /\ ~Fits(Append(p, terms[n + 1]), max_terms, max_chars)

(* The prompt holds the manual terms and then the automatic ones, as many  *)
(* from the front as both budgets allow, each once                         *)
(* (_merge_prompt_terms).                                                  *)
PromptIsLongestPrefix ==
    IsLongestPrefix(prompt.terms,
                    LoadDictionaryTerms(prompt.manual) \o prompt.auto,
                    PromptMaxTerms, PromptMaxChars)

Better(a, b) ==
    \/ IsRecent(a) /\ ~IsRecent(b)
    \/ /\ IsRecent(a) = IsRecent(b)
       /\ \/ a.last_seen > b.last_seen
          \/ a.last_seen = b.last_seen /\ a.mention_count > b.mention_count

(* The vocabulary in the cache is that of the last index that was read,    *)
(* whatever failed since, and it is the best of it: who was left out ranks *)
(* below all that are in it, and it is empty only when the best name alone *)
(* exceeds the budget, in the words of the docstring: recent entities      *)
(* first, one-off mentions only when recent (select_entity_terms,          *)
(* load_entity_dictionary_terms).                                          *)
IsBest(chosen, entities, aliases) ==
    LET candidates == Candidates(entities)
        best(i, others) == \A j \in others : ~Better(entities[j], entities[i])
        left_out == {j \in candidates : entities[j].name \notin Range(chosen)}
    IN  /\ \A t \in Range(chosen) :
              \E i \in candidates : t \in Range(NamesOf(entities[i], aliases)) /\ best(i, left_out)
        /\ chosen = << >> /\ candidates # {} =>
              \E i \in candidates : /\ best(i, candidates)
                                    /\ ~Fits(<<entities[i].name>>, EntityMaxTerms, EntityMaxChars)

VocabularyIsTheBest == IsBest(cache.terms, read.index, include_aliases)

(* A prompt is built from an index that was read within the lifetime of    *)
(* the cache, or from an older one only for as long as a failed refresh is *)
(* not tried again.                                                        *)
VocabularyIsFresh ==
    prompt.auto # << >> => \/ prompt.built - prompt.read < Lifetime
                           \/ prompt.built - prompt.failed < RetryAfter
=============================================================================
