---------------------------- MODULE SoundQueueMenu ---------------------------
(***************************************************************************)
(* The sound queue with its third writer.  The native bridge of the sound- *)
(* select menu (execute_frame_phase17_bit7_index2) does not call the filer *)
(* for the words the menu files: it stores the cells a captured frame had, *)
(* count and write cursor included, after checking the input cells only.   *)
(* The capture had MenuSlot words in the queue, none of them sent.         *)
(***************************************************************************)
EXTENDS SoundQueue

CONSTANTS
  MenuSlot,   (* the slot of the menu's first word (3)                       *)
  MenuWords   (* the sequences stored: a punch (1 word), the diagnostic exit *)
              (* (5); each ends before the ring's last slot                  *)

VARIABLE live     (* history: the words filed and not yet taken for sending  *)

menuVars == <<vars, live>>

MenuInit == Init /\ live = <<BootWord>>

(* The step native_runtime makes for a menu frame.  It is taken here only   *)
(* when the words the capture had before it have been filed.                *)
MenuFiles(words) ==
  LET end == MenuSlot + Len(words) IN
  /\ pc = "idle" /\ ~serving
  /\ wcur = MenuSlot
  /\ count' = end
  /\ wcur' = end
  /\ ring' = [s \in Slot |->
                IF s \in MenuSlot .. end - 1 THEN words[s - MenuSlot + 1] ELSE ring[s]]
  /\ live' = live \o words
  /\ UNCHANGED <<rcur, staged, idx, armed, uart, filer, report>>

(* The other two writers, with the history they make. *)
QueueStep ==
  /\ Next
  /\ live' = IF FilerAdvance THEN Append(live, word)
             ELSE IF rcur' # rcur THEN Tail(live)
             ELSE live

MenuNext == QueueStep \/ \E words \in MenuWords : MenuFiles(words)

MenuSpec == MenuInit /\ [][MenuNext]_menuVars

(* "Only live-filed queue content flows; nothing is staged or seeded"       *)
(* (include/vf2/session.h:184): the entries the drainer will send are the   *)
(* words that were filed and not yet sent, each once and in order.          *)
LiveFiledOnly == pc = "idle" => Waiting = live
=============================================================================
