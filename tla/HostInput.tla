------------------------------ MODULE HostInput ------------------------------
(***************************************************************************)
(* From the player's hands to the input mask of a frame.  SDL queues an    *)
(* event for each key or pad button that goes down or up; the frame loop   *)
(* polls them all (handle_event), keeps a count of held sources per button *)
(* and samples the mask when it steps a frame.                             *)
(*                                                                         *)
(* Two pads share a source name, so a source here is a physical control.   *)
(* Key repeats are dropped before anything else and are left out.          *)
(***************************************************************************)
EXTENDS Naturals, Sequences, FiniteSets

CONSTANTS
  Source,     (* keys and pad buttons                                        *)
  Button,     (* bits of the mask (18)                                       *)
  bindings,   (* source -> the set of its buttons, one or none               *)
  hotkey,     (* source -> "quit", "pause", "step", "view" or "none"         *)
  MaxEvents   (* bound: events waiting                                       *)

ASSUME InputAssumption ==
  /\ bindings \in [Source -> SUBSET Button]
  /\ \A s \in Source : Cardinality(bindings[s]) <= 1
  /\ hotkey \in [Source -> {"quit", "pause", "step", "view", "none"}]
  /\ MaxEvents \in Nat

VARIABLES
  down,       (* the sources the player holds down                           *)
  events,     (* SDL's queue                                                 *)
  held_count, (* per button                                                  *)
  quit, paused, step_once,
  phase,      (* "poll", "frame" or "closed"                                 *)
  mask        (* the buttons the last frame was given                        *)

inputs == <<down, events, held_count, quit, paused, step_once, phase, mask>>

Event == [source : Source, down : BOOLEAN]

InputInit ==
  /\ down = {} /\ events = << >>
  /\ held_count = [b \in Button |-> 0]
  /\ quit = FALSE /\ paused = FALSE /\ step_once = FALSE
  /\ phase = "poll" /\ mask = {}

-----------------------------------------------------------------------------
Press(s) ==
  /\ s \notin down /\ Len(events) < MaxEvents
  /\ down' = down \cup {s}
  /\ events' = Append(events, [source |-> s, down |-> TRUE])
  /\ UNCHANGED <<held_count, quit, paused, step_once, phase, mask>>

Release(s) ==
  /\ s \in down /\ Len(events) < MaxEvents
  /\ down' = down \ {s}
  /\ events' = Append(events, [source |-> s, down |-> FALSE])
  /\ UNCHANGED <<held_count, quit, paused, step_once, phase, mask>>

(* A flag per button in place of a count. *)
InputEventFlag(e) ==
  held_count' =
    [b \in Button |->
       IF b \notin bindings[e.source] THEN held_count[b]
       ELSE IF e.down THEN 1 ELSE 0]

(* vf2_host_input_event. *)
InputEvent(e) ==
  held_count' =
    [b \in Button |->
       IF b \notin bindings[e.source] THEN held_count[b]
       ELSE IF e.down THEN held_count[b] + 1
       ELSE IF held_count[b] # 0 THEN held_count[b] - 1
       ELSE 0]

(* A hotkey's key-down is swallowed; its key-up is an input event like any. *)
Hotkey(e) ==
  /\ e.down /\ hotkey[e.source] # "none"
  /\ quit' = (quit \/ hotkey[e.source] = "quit")
  /\ paused' = (paused # (hotkey[e.source] = "pause"))
  /\ step_once' = (step_once \/ hotkey[e.source] = "step")
  /\ UNCHANGED held_count

Input(e) ==
  /\ ~(e.down /\ hotkey[e.source] # "none")
  /\ InputEvent(e)
  /\ UNCHANGED <<quit, paused, step_once>>

HandleEvent ==
  /\ phase = "poll" /\ events # << >>
  /\ events' = Tail(events)
  /\ Hotkey(Head(events)) \/ Input(Head(events))
  /\ UNCHANGED <<down, phase, mask>>

(* SDL_PollEvent returned false. *)
PollDone ==
  /\ phase = "poll" /\ events = << >>
  /\ phase' = "frame"
  /\ UNCHANGED <<down, events, held_count, quit, paused, step_once, mask>>

Mask == {b \in Button : held_count[b] # 0}

(* One round of the frame loop; its condition is looked at when it ends. *)
Round ==
  /\ phase = "frame"
  /\ IF ~paused \/ step_once
       THEN mask' = Mask /\ step_once' = FALSE
       ELSE UNCHANGED <<mask, step_once>>
  /\ phase' = IF quit THEN "closed" ELSE "poll"
  /\ UNCHANGED <<down, events, held_count, quit, paused>>

InputNext ==
  \/ \E s \in Source : Press(s) \/ Release(s)
  \/ HandleEvent
  \/ PollDone
  \/ Round

InputSpec == InputInit /\ [][InputNext]_inputs

-----------------------------------------------------------------------------
(* The sources that are down as far as the loop has been told. *)
Told ==
  {s \in Source :
     LET later == {i \in DOMAIN events : events[i].source = s}
     IN  (s \in down) # (Cardinality(later) % 2 = 1)}

(* "keyboard and pad both hold PUNCH: releasing one keeps it pressed"      *)
(* (tests/host/test_host.c:51): a button is pressed while a source that    *)
(* pressed it is held, and no longer, whatever the order of presses,       *)
(* releases and hotkeys.                                                   *)
PressedWhileHeld ==
  \A b \in Button :
    (\E s \in Told : hotkey[s] = "none" /\ b \in bindings[s]) <=> b \in Mask
=============================================================================
