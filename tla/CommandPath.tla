----------------------------- MODULE CommandPath -----------------------------
(***************************************************************************)
(* What the sound path promises the game, from the word it files to the    *)
(* entry the sound board dispatches: words wait in order, each becomes one *)
(* packet behind the packets already on the board, and packets are taken   *)
(* from the front.  The board's own streams put bursts of packets behind   *)
(* them.  A word that carries the reboot byte is the only one lost.        *)
(***************************************************************************)
EXTENDS Sequences

CONSTANTS
  Offered,    (* the packets of the words the game files                     *)
  Boot,       (* the packet waiting at the start                             *)
  Burst,      (* the bursts a stream emits: sequences of packets             *)
  Reboot      (* the byte the board refuses                                  *)

VARIABLES
  waiting,    (* packets not yet on the board                                *)
  backlog     (* packets on the board, not yet dispatched                    *)

vars == <<waiting, backlog>>

Init == waiting = <<Boot>> /\ backlog = << >>

Accept == \E p \in Offered : waiting' = Append(waiting, p) /\ UNCHANGED backlog

File ==
  /\ waiting # << >>
  /\ backlog' = Append(backlog, Head(waiting))
  /\ waiting' = Tail(waiting)

Lose ==
  /\ waiting # << >>
  /\ \E i \in DOMAIN Head(waiting) : Head(waiting)[i] = Reboot
  /\ waiting' = Tail(waiting)
  /\ UNCHANGED backlog

Emit == \E b \in Burst : backlog' = backlog \o b /\ UNCHANGED waiting

Dispatch ==
  /\ backlog # << >>
  /\ backlog' = Tail(backlog)
  /\ UNCHANGED waiting

Next == Accept \/ File \/ Lose \/ Emit \/ Dispatch

Spec == Init /\ [][Next]_vars
=============================================================================
