---------------------------- MODULE StorageMount -----------------------------
(***************************************************************************)
(* Where recordings are kept (firmware/components/recording_store): the SD *)
(* card, or the internal flash when no card can be mounted, decided once at *)
(* every boot.  With a card the flash may still hold recordings made before *)
(* it was fitted; a sync mounts it for as long as it takes to send them.   *)
(* A sync may be under way before the decision is made.                    *)
(***************************************************************************)
CONSTANTS Id, Data, NoFile,
          InFlash           \* the recordings that were made without a card

VARIABLES files,            \* the .ogg file of every id on the device
          store,            \* s_mounted and s_on_sd: "none", "sd", "flash"; or "failed"
          flash,            \* the partition: "blank", "fat", or "damaged"
          mounted           \* s_wl_handle is valid

MountInit == store = "none" /\ mounted = FALSE /\ flash \in {"blank", "fat", "damaged"}

(* recording_store_base_path: what lies under it                           *)
AtBase == CASE store = "sd" -> Id \ InFlash
            [] store = "flash" -> InFlash
            [] OTHER -> {}

(* Mutant: a partition that does not mount is formatted.                   *)
MayFormatDamaged(allow) == {FALSE, allow}

(* storage_partition_is_blank, which also says no when it cannot read, and *)
(* format_if_mount_failed                                                  *)
MayFormat(allow) == {FALSE, allow /\ flash = "blank"}

Formatted == files' = [i \in Id |-> IF i \in InFlash THEN NoFile ELSE files[i]]

(* mount_flash: what is mounted, formatted first, or neither.              *)
MountFlash(allow) ==
    \/ flash = "fat" /\ mounted' = TRUE /\ UNCHANGED <<flash, files>>
    \/ mounted' = FALSE /\ UNCHANGED <<flash, files>>
    \/ /\ TRUE \in MayFormat(allow) /\ flash # "fat"
       /\ Formatted
       /\ \/ mounted' = TRUE /\ flash' = "fat"
          \/ mounted' = FALSE /\ flash' = "damaged"

(* mount_sd: bus, card and directory; when one fails the others are given  *)
(* back.  A card is never formatted.                                       *)
MountSd == store' = "sd" /\ UNCHANGED <<files, flash, mounted>>

(* recording_store_init, once per boot; nothing tries again after it failed *)
StoreInit ==
    /\ store = "none"
    /\ \/ MountSd
       \/ MountFlash(TRUE) /\ store' = IF mounted' THEN "flash" ELSE "failed"

(* recording_store_open_flash_backlog: a blank partition has nothing to    *)
(* sync, and nothing is formatted.                                         *)
OpenBacklog ==
    /\ IF store # "sd" \/ mounted THEN UNCHANGED <<files, flash, mounted>> ELSE MountFlash(FALSE)
    /\ UNCHANGED store

(* recording_store_close_flash_backlog: the handle is given up, also when  *)
(* unmounting fails.                                                       *)
CloseBacklog ==
    /\ mounted' = (mounted /\ store # "sd")
    /\ UNCHANGED <<store, flash>>

(* The device restarts.                                                    *)
Unmounted == store' = "none" /\ mounted' = FALSE /\ UNCHANGED flash
=============================================================================
