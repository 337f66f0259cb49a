---------------------------- MODULE MCPromptTerms ----------------------------
(* PromptTerms with five terms, one of them too short for a name and one   *)
(* that fits no entity budget with another, and budgets at which the count *)
(* of terms, the characters and neither end a list.                        *)
EXTENDS PromptTerms

MCLength == [t \in 1 .. 5 |-> CASE t = 1 -> 1 [] t = 4 -> 5 [] OTHER -> 2]
MCKinds == {"person"}
Entity(k, n, mentions, day, aliases) ==
    [kind |-> k, name |-> n, mention_count |-> mentions, last_seen |-> day, aliases |-> aliases]
MCIndexes ==
    { << Entity("person", 1, 9, 9, << >>), Entity("person", 2, 1, 8, <<3, 1>>),
         Entity("person", 4, 7, 3, << >>), Entity("event", 5, 9, 9, << >>) >>,
      << Entity("person", 3, 1, 0, << >>), Entity("person", 2, 2, 0, << >>),
         Entity("person", 5, 2, 8, <<2>>), Entity("person", 5, 3, 7, <<3>>) >>,
      << Entity("person", 4, 2, 8, << >>), Entity("person", 5, 3, 8, << >>),
         Entity("person", 2, 2, 8, << >>) >> }
MCDictionaries == { <<1>>, <<2, Blank, 5, 2, 4, 1>> }
=============================================================================
