---------------------------- MODULE FrameWait_proofs ----------------------------
(***************************************************************************)
(* For any number of sessions, any scripts of waits and any threshold of   *)
(* two visits or more: type correctness of the frame wait, that its        *)
(* refusals take both steppers, and that sessions of one stepper each, run *)
(* from one snapshot, come to the same frames.                             *)
(*                                                                         *)
(* The last is the claim of session.h:31 about the two steppers.  Neither  *)
(* follows the other: the native runtime computes a polling loop at once   *)
(* and the oracle read by read, and both are brought to one abstract       *)
(* course of the program.  A step of either is at most two steps of the    *)
(* course, and the course of a script is one sequence of points, so of two *)
(* sessions the frames of one begin the frames of the other.               *)
(***************************************************************************)
EXTENDS FrameWait, SequenceTheorems, WellFoundedInduction, NaturalsInduction, TLAPS

Stopped(s, w) == \E i \in 1 .. Len(stops[s]) : stops[s][i].stepper = w

Mixed(s) == \A w \in Stepper : Stopped(s, w)

\* Where a machine in the call c stands, until both steppers have stopped it:
\* the byte is 0 outside a wait and 1 behind the main loop's, and the visits
\* of no stepper are left over in a handler, or those of the oracle outside a
\* call of it.
Calm(m, c) ==
  /\ m.seen = 0
  /\ m.place \in {"run", "entry"} => m.byte = 0
  /\ m.place = "changed" => m.byte = 1
  /\ m.place = "poll" => m.byte = 0 \/ (m.byte = 1 /\ m.visits["oracle"] = 0)
  /\ m.place = "handler" /\ m.from = "poll" => m.byte = 0
  /\ m.place = "return" /\ m.from = "poll" => m.byte = 1
  /\ m.place \in {"handler", "return"} =>
       m.visits["oracle"] = 0 /\ m.visits["native"] = 0
  /\ c # "oracle" => m.visits["oracle"] = 0

SessionInv(s) ==
  /\ machine[s].visits["native"] > 0 => Stopped(s, "native")
  /\ Mixed(s) \/ Calm(machine[s], call[s])
  /\ s \in refused => Mixed(s)

IInv == TypeOK /\ \A s \in Session : SessionInv(s)
-------------------------------------------------------------------------------
(* What the helpers return.                                                *)

LEMMA PolledFacts ==
  ASSUME NEW m \in Machine, NEW n \in Nat
  PROVE  /\ Polled(m, n) \in Machine
         /\ \E p \in 0 .. PollCap : Polled(m, n) = [m EXCEPT !.polls = p]
<1> DEFINE p == IF m.polls + n > PollCap THEN PollCap ELSE m.polls + n
<1>1. p \in 0 .. PollCap
      BY WaitAssumption DEF Machine, PollCap
<1>2. Polled(m, n) = [m EXCEPT !.polls = p]
      BY DEF Polled, Machine
<1>3. [m EXCEPT !.polls = p] \in Machine
      BY <1>1 DEF Machine
<1>4. QED
      BY <1>1, <1>2, <1>3

LEMMA InjectFacts ==
  ASSUME NEW m \in Machine, m.place \in Loop, NEW w \in Stepper
  PROVE  /\ Inject(m, w) \in Machine
         /\ Inject(m, w).place = "handler" /\ Inject(m, w).from = m.place
         /\ Inject(m, w).byte = m.byte /\ Inject(m, w).seen = m.seen
         /\ Inject(m, w).visits = [m.visits EXCEPT ![w] = 0]
<1>1. [m.visits EXCEPT ![w] = 0] \in [Stepper -> 0 .. VisitsBeforeInterrupt - 1]
      BY WaitAssumption DEF Machine
<1>2. [m.injected EXCEPT ![w] = TRUE] \in [Stepper -> BOOLEAN]
      BY DEF Machine
<1>3. QED
      BY <1>1, <1>2 DEF Inject, Machine, Place

\* A poll to the threshold enters the handler from the loop, whatever it read.
LEMMA PollToInterruptFacts ==
  ASSUME NEW m \in Machine, m.place \in Loop, NEW n \in Nat
  PROVE  LET i == PollToInterrupt(m, n) IN
         /\ i \in Machine
         /\ i.place = "handler" /\ i.from = m.place
         /\ i.byte = m.byte /\ i.seen = m.seen
         /\ i.visits = [m.visits EXCEPT !["native"] = 0]
<1>1. PICK p \in 0 .. PollCap : Polled(m, n) = [m EXCEPT !.polls = p]
      BY PolledFacts
<1>2. /\ Polled(m, n) \in Machine
      /\ Polled(m, n).place = m.place
      /\ Polled(m, n).byte = m.byte /\ Polled(m, n).seen = m.seen
      /\ Polled(m, n).visits = m.visits
      BY <1>1, PolledFacts DEF Machine
<1>3. "native" \in Stepper
      BY DEF Stepper
<1>4. QED
      BY <1>2, <1>3, InjectFacts DEF PollToInterrupt

\* An observed machine has made one visit more, or is in the handler.
LEMMA ObserveFacts ==
  ASSUME NEW m \in Machine, NEW w \in Stepper
  PROVE  /\ Observe(m, w) \in Machine
         /\ Observe(m, w).byte = m.byte /\ Observe(m, w).seen = m.seen
         /\ \/ m.place \notin Loop /\ Observe(m, w) = m
            \/ /\ m.place \in Loop
               /\ m.visits[w] + 1 < VisitsBeforeInterrupt
               /\ Observe(m, w).place = m.place /\ Observe(m, w).from = m.from
               /\ Observe(m, w).visits = [m.visits EXCEPT ![w] = @ + 1]
            \/ /\ m.place \in Loop
               /\ m.visits[w] + 1 >= VisitsBeforeInterrupt
               /\ Observe(m, w) = Inject(m, w)
               /\ Observe(m, w).place = "handler"
               /\ Observe(m, w).from = m.place
               /\ Observe(m, w).visits = [m.visits EXCEPT ![w] = 0]
<1>1. CASE m.place \notin Loop
      BY <1>1 DEF Observe
<1>2. CASE m.place \in Loop /\ ~ (m.visits[w] + 1 < VisitsBeforeInterrupt)
  <2>1. Observe(m, w) = Inject(m, w)
        BY <1>2 DEF Observe
  <2>2. m.visits[w] + 1 >= VisitsBeforeInterrupt
        BY <1>2, WaitAssumption DEF Machine
  <2>3. QED
        BY <1>2, <2>1, <2>2, InjectFacts
<1>3. CASE m.place \in Loop /\ m.visits[w] + 1 < VisitsBeforeInterrupt
  <2>1. Observe(m, w) = [m EXCEPT !.visits[w] = @ + 1]
        BY <1>3 DEF Observe
  <2>2. [m.visits EXCEPT ![w] = @ + 1] \in
          [Stepper -> 0 .. VisitsBeforeInterrupt - 1]
        BY <1>3, WaitAssumption DEF Machine
  <2>3. QED
        BY <1>3, <2>1, <2>2 DEF Machine
<1>4. QED
      BY <1>1, <1>2, <1>3

\* The native blocks touch the native visits only.
LEMMA ObserveNativeVisits ==
  ASSUME NEW m \in Machine
  PROVE  LET o == Observe(m, "native") IN
         /\ o.visits["oracle"] = m.visits["oracle"]
         /\ o.place = "handler" /\ m.place \in Loop => o.visits["native"] = 0
<1> DEFINE o == Observe(m, "native")
<1>1. "native" \in Stepper /\ "oracle" \in Stepper /\ "native" # "oracle"
      BY DEF Stepper
<1>2. m.visits \in [Stepper -> 0 .. VisitsBeforeInterrupt - 1]
      BY DEF Machine
<1>3. CASE o = m /\ m.place \notin Loop
      BY <1>3
<1>4. CASE o.visits = [m.visits EXCEPT !["native"] = @ + 1] /\ o.place = m.place
      BY <1>1, <1>2, <1>4 DEF Loop
<1>5. CASE o.visits = [m.visits EXCEPT !["native"] = 0]
      BY <1>1, <1>2, <1>5
<1>6. QED
      BY <1>1, <1>3, <1>4, <1>5, ObserveFacts

LEMMA AtWaitFacts ==
  ASSUME NEW m \in Machine
  PROVE  /\ AtWait(m) \in Machine
         /\ AtWait(m).place \in {"entry", "early", "texture"}
         /\ AtWait(m).byte = m.byte /\ AtWait(m).visits = m.visits
         /\ AtWait(m).seen \in {m.seen, m.byte}
<1>1. [m EXCEPT !.place = "entry"] \in Machine
      BY DEF Machine, Place
<1>2. [m EXCEPT !.place = "early"] \in Machine
      BY DEF Machine, Place, Loop
<1>3. [m EXCEPT !.place = "texture", !.seen = m.byte] \in Machine
      BY DEF Machine, Place, Loop
<1>4. CASE script[m.wait] = "main"
      BY <1>1, <1>4 DEF AtWait, Machine
<1>5. CASE script[m.wait] = "early"
      BY <1>2, <1>5 DEF AtWait, Machine
<1>6. CASE script[m.wait] # "main" /\ script[m.wait] # "early"
      BY <1>3, <1>6 DEF AtWait, Machine
<1>7. QED
      BY <1>4, <1>5, <1>6

LEMMA WaitOverFacts ==
  ASSUME NEW m \in Machine
  PROVE  /\ WaitOver(m) \in Machine
         /\ WaitOver(m).place = "run" /\ WaitOver(m).byte = m.byte
         /\ WaitOver(m).seen = m.seen /\ WaitOver(m).visits = m.visits
<1>1. m.wait + 1 \in Nat \ {0}
      BY DEF Machine
<1>2. QED
      BY <1>1 DEF WaitOver, Machine, Place

LEMMA HandledFacts ==
  ASSUME NEW m \in Machine
  PROVE  /\ Handled(m) \in Machine
         /\ Handled(m).place = "return" /\ Handled(m).from = m.from
         /\ Handled(m).byte = (m.byte + 1) % 256
         /\ Handled(m).seen = m.seen /\ Handled(m).visits = m.visits
<1>1. (m.byte + 1) % 256 \in 0 .. 255
      BY DEF Machine
<1>2. 0 \in 0 .. PollCap
      BY WaitAssumption DEF PollCap
<1>3. QED
      BY <1>1, <1>2, ZenonT(60) DEF Handled, Machine, Place

\* One read changes nothing but the count of reads.
LEMMA PolledOnce ==
  ASSUME NEW m \in Machine
  PROVE  /\ Polled(m, 1) \in Machine
         /\ Polled(m, 1).place = m.place /\ Polled(m, 1).from = m.from
         /\ Polled(m, 1).byte = m.byte /\ Polled(m, 1).seen = m.seen
         /\ Polled(m, 1).visits = m.visits
<1>1. PICK p \in 0 .. PollCap : Polled(m, 1) = [m EXCEPT !.polls = p]
      BY PolledFacts
<1>2. QED
      BY <1>1, PolledFacts DEF Machine

LEMMA EarlyExitFacts ==
  ASSUME NEW m \in Machine
  PROVE  /\ EarlyExit(m) \in Machine
         /\ EarlyExit(m).place = "run" /\ EarlyExit(m).byte = 0
         /\ EarlyExit(m).seen = m.seen /\ EarlyExit(m).visits = m.visits
<1> DEFINE e == [Polled(m, 1) EXCEPT !.byte = 0]
<1>1. e \in Machine /\ e.byte = 0 /\ e.seen = m.seen /\ e.visits = m.visits
      BY PolledOnce DEF Machine
<1>2. QED
      BY <1>1, WaitOverFacts DEF EarlyExit

-------------------------------------------------------------------------------
(* The three ways a step ends, for a step of a session in a call.          *)

LEMMA StoppedAppend ==
  ASSUME TypeOK, NEW s \in Session, NEW r \in Stop, NEW w \in Stepper,
         stops' = [stops EXCEPT ![s] = Append(@, r)]
  PROVE  Stopped(s, w)' <=> (Stopped(s, w) \/ r.stepper = w)
<1>1. stops[s] \in Seq(Stop) /\ stops'[s] = Append(stops[s], r)
      BY DEF TypeOK
<1>2. Len(stops'[s]) = Len(stops[s]) + 1 /\ stops'[s][Len(stops[s]) + 1] = r
      BY <1>1
<1>3. \A i \in 1 .. Len(stops[s]) : stops'[s][i] = stops[s][i]
      BY <1>1
<1>4. Len(stops[s]) \in Nat
      BY <1>1
<1>5. 1 .. Len(stops'[s]) = (1 .. Len(stops[s])) \cup {Len(stops[s]) + 1}
      BY <1>2, <1>4
<1>6. QED
      BY <1>2, <1>3, <1>5 DEF Stopped

LEMMA OthersKept ==
  ASSUME TypeOK, NEW s \in Session, SessionInv(s),
         machine'[s] = machine[s], call'[s] = call[s], stops'[s] = stops[s],
         (s \in refused') <=> (s \in refused)
  PROVE  SessionInv(s)'
BY DEF SessionInv, Mixed, Stopped

LEMMA ReturnsKeeps ==
  ASSUME IInv, NEW s \in Session, s \notin refused, call[s] \in Stepper,
         NEW m \in Machine, Returns(s, m),
         m.visits["native"] > 0 => Stopped(s, "native") \/ call[s] = "native",
         \/ Mixed(s)
         \/ Calm(m, "none")
         \/ call[s] = "oracle" /\ Stopped(s, "native")
  PROVE  IInv'
<1> DEFINE r == [stepper |-> call[s], place |-> m.place, from |-> m.from,
                 byte |-> m.byte, request |-> m.request, wait |-> m.wait,
                 polls |-> m.polls]
<1>1. r \in Stop
      BY DEF Stop, Machine
<1>2. stops' = [stops EXCEPT ![s] = Append(@, r)]
      BY DEF Returns
<1>3. TypeOK'
  <2>1. stops' \in [Session -> Seq(Stop)]
        BY <1>1, <1>2 DEF IInv, TypeOK
  <2>2. QED
        BY <2>1 DEF IInv, TypeOK, Returns
<1>4. \A w \in Stepper : Stopped(s, w)' <=> (Stopped(s, w) \/ call[s] = w)
      BY <1>1, <1>2, StoppedAppend DEF IInv
<1>5. machine'[s] = m /\ call'[s] = "none"
      BY DEF Returns, IInv, TypeOK
<1>6. SessionInv(s)'
  <2>1. "native" \in Stepper /\ "oracle" \in Stepper
        BY DEF Stepper
  <2>2. machine'[s].visits["native"] > 0 => Stopped(s, "native")'
        BY <1>4, <1>5, <2>1
  <2>3. Mixed(s) => Mixed(s)'
        BY <1>4 DEF Mixed
  <2>4. call[s] = "oracle" /\ Stopped(s, "native") => Mixed(s)'
        BY <1>4 DEF Mixed, Stepper
  <2>5. Mixed(s)' \/ Calm(machine'[s], call'[s])
        BY <1>5, <2>3, <2>4
  <2>6. s \notin refused'
        BY DEF Returns
  <2>7. QED
        BY <2>2, <2>5, <2>6 DEF SessionInv
<1>7. ASSUME NEW t \in Session, t # s PROVE SessionInv(t)'
      BY <1>7, OthersKept DEF IInv, TypeOK, Returns
<1>8. QED
      BY <1>3, <1>6, <1>7 DEF IInv

LEMMA ContinuesKeeps ==
  ASSUME IInv, NEW s \in Session, s \notin refused,
         NEW m \in Machine, Continues(s, m),
         m.visits["native"] > 0 => Stopped(s, "native"),
         Mixed(s) \/ Calm(m, call[s])
  PROVE  IInv'
<1>1. TypeOK'
      BY DEF IInv, TypeOK, Continues
<1>2. machine'[s] = m
      BY DEF Continues, IInv, TypeOK
<1>3. SessionInv(s)'
      BY <1>2 DEF Continues, SessionInv, Mixed, Stopped
<1>4. ASSUME NEW t \in Session, t # s PROVE SessionInv(t)'
      BY <1>4, OthersKept DEF IInv, TypeOK, Continues
<1>5. QED
      BY <1>1, <1>3, <1>4 DEF IInv

LEMMA RefusesKeeps ==
  ASSUME IInv, NEW s \in Session, NEW m \in Machine, Refuses(s, m), Mixed(s)
  PROVE  IInv'
<1>1. TypeOK'
      BY DEF IInv, TypeOK, Refuses
<1>2. Mixed(s)'
      BY DEF Refuses, Mixed, Stopped
<1>3. SessionInv(s)'
      BY <1>2 DEF SessionInv, Mixed, Stepper
<1>4. ASSUME NEW t \in Session, t # s PROVE SessionInv(t)'
      BY <1>4, OthersKept DEF IInv, TypeOK, Refuses
<1>5. QED
      BY <1>1, <1>3, <1>4 DEF IInv

-------------------------------------------------------------------------------
(* The steps.                                                              *)

\* What every step of a session may use.
LEMMA AtStep ==
  ASSUME IInv, NEW s \in Session, Running(s), call[s] # "none"
  PROVE  /\ machine[s] \in Machine /\ s \notin refused /\ call[s] \in Stepper
         /\ machine[s].visits["native"] > 0 => Stopped(s, "native")
         /\ Mixed(s) \/ Calm(machine[s], call[s])
BY DEF IInv, TypeOK, SessionInv, Running, Ended

LEMMA NativeToWaitKeeps ==
  ASSUME IInv, NEW s \in Session, NativeToWait(s)
  PROVE  IInv'
<1> DEFINE m == machine[s]
<1>1. /\ m \in Machine /\ s \notin refused /\ call[s] \in Stepper
      /\ m.visits["native"] > 0 => Stopped(s, "native")
      /\ Mixed(s) \/ Calm(m, call[s])
      /\ m.place = "run"
      BY AtStep DEF NativeToWait, InNative
<1>2. CASE script[m.wait] = "main" /\ m.byte # 0
  <2>1. Mixed(s)
        BY <1>1, <1>2 DEF Calm
  <2>2. QED
        BY <1>1, <1>2, <2>1, RefusesKeeps DEF NativeToWait
<1>3. CASE ~ (script[m.wait] = "main" /\ m.byte # 0)
  <2>1. Continues(s, AtWait(m))
        BY <1>3 DEF NativeToWait
  <2>2. Calm(m, call[s]) => Calm(AtWait(m), call[s])
        BY <1>1, AtWaitFacts DEF Calm
  <2>3. QED
        BY <1>1, <2>1, <2>2, AtWaitFacts, ContinuesKeeps
<1>4. QED
      BY <1>2, <1>3

\* What an observing native block leaves: the call may end there.
LEMMA ObservedReturns ==
  ASSUME IInv, NEW s \in Session, s \notin refused, call[s] = "native",
         NEW m \in Machine,
         m.place \in {"early", "texture"},
         Mixed(s) \/ (m.seen = 0 /\ m.visits["oracle"] = 0),
         Returns(s, Observe(m, "native"))
  PROVE  IInv'
<1> DEFINE o == Observe(m, "native")
<1>1. "native" \in Stepper /\ "oracle" \in Stepper
      BY DEF Stepper
<1>2. /\ o \in Machine /\ o.seen = m.seen
      /\ o.place = m.place \/ (o.place = "handler" /\ o.from = m.place)
      BY <1>1, ObserveFacts
<1>3. /\ o.visits["oracle"] = m.visits["oracle"]
      /\ o.place = "handler" => o.visits["native"] = 0
      BY ObserveNativeVisits DEF Loop
<1>4. Mixed(s) \/ Calm(o, "none")
      BY <1>2, <1>3 DEF Calm
<1>5. QED
      BY <1>1, <1>2, <1>4, ReturnsKeeps

LEMMA NativeTextureEntryKeeps ==
  ASSUME IInv, NEW s \in Session, NativeTextureEntry(s)
  PROVE  IInv'
<1> DEFINE m == machine[s]
<1>1. /\ m \in Machine /\ s \notin refused /\ call[s] = "native"
      /\ Mixed(s) \/ Calm(m, call[s])
      /\ m.place = "run"
      BY AtStep DEF NativeTextureEntry, InNative
<1>2. AtWait(m) = [m EXCEPT !.place = "texture", !.seen = m.byte]
  <2>1. script[m.wait] # "main" /\ script[m.wait] # "early"
        BY DEF NativeTextureEntry
  <2>2. AtWait(m) = CASE script[m.wait] = "main" -> [m EXCEPT !.place = "entry"]
          [] script[m.wait] = "early" -> [m EXCEPT !.place = "early"]
          [] OTHER -> [m EXCEPT !.place = "texture", !.seen = m.byte]
        BY DEF AtWait
  <2>3. QED
        BY <2>1, <2>2
<1>3. /\ AtWait(m) \in Machine /\ AtWait(m).place = "texture"
      /\ AtWait(m).seen = m.byte /\ AtWait(m).visits = m.visits
      BY <1>1, <1>2, AtWaitFacts DEF Machine
<1>4. Mixed(s) \/ (AtWait(m).seen = 0 /\ AtWait(m).visits["oracle"] = 0)
      BY <1>1, <1>3 DEF Calm
<1>5. QED
      BY <1>1, <1>3, <1>4, ObservedReturns DEF NativeTextureEntry

\* A block that polls to the threshold ends the call in the handler.
LEMMA PolledReturns ==
  ASSUME IInv, NEW s \in Session, s \notin refused, call[s] = "native",
         NEW m \in Machine, m.place \in Loop, NEW n \in Nat,
         \/ Mixed(s)
         \/ /\ m.seen = 0 /\ m.visits["oracle"] = 0
            /\ m.place = "poll" => m.byte = 0,
         Returns(s, PollToInterrupt(m, n))
  PROVE  IInv'
<1> DEFINE i == PollToInterrupt(m, n)
<1>1. /\ i \in Machine /\ i.place = "handler" /\ i.from = m.place
      /\ i.byte = m.byte /\ i.seen = m.seen
      /\ i.visits = [m.visits EXCEPT !["native"] = 0]
      BY PollToInterruptFacts
<1>2. i.visits["native"] = 0 /\ i.visits["oracle"] = m.visits["oracle"]
      BY <1>1 DEF Machine, Stepper
<1>3. Mixed(s) \/ Calm(i, "none")
      BY <1>1, <1>2 DEF Calm
<1>4. call[s] \in Stepper
      BY DEF Stepper
<1>5. QED
      BY <1>1, <1>2, <1>3, <1>4, ReturnsKeeps

\* The polling loops have a visit to go.
LEMMA VisitsLeft ==
  ASSUME NEW m \in Machine
  PROVE  /\ VisitsBeforeInterrupt - m.visits["native"] \in Nat
         /\ VisitsBeforeInterrupt - PhaseSeed(m) - 1 \in Nat
<1>1. m.visits["native"] \in 0 .. VisitsBeforeInterrupt - 1
      BY DEF Machine, Stepper
<1>2. PhaseSeed(m) \in 0 .. VisitsBeforeInterrupt - 1
      BY <1>1, WaitAssumption DEF PhaseSeed
<1>3. QED
      BY <1>1, <1>2, WaitAssumption

LEMMA NativeMainPollKeeps ==
  ASSUME IInv, NEW s \in Session, NativeMainPoll(s)
  PROVE  IInv'
<1> DEFINE m == machine[s]
           p == [m EXCEPT !.place = "poll", !.seen = m.byte]
<1>1. /\ m \in Machine /\ s \notin refused /\ call[s] = "native"
      /\ Mixed(s) \/ Calm(m, call[s])
      /\ m.place = "entry"
      BY AtStep DEF NativeMainPoll, InNative
<1>2. /\ p \in Machine /\ p.place = "poll" /\ p.place \in Loop
      /\ p.byte = m.byte /\ p.seen = m.byte /\ p.visits = m.visits
      BY <1>1 DEF Machine, Place, Loop
<1>3. \/ Mixed(s)
      \/ p.seen = 0 /\ p.visits["oracle"] = 0 /\ p.byte = 0
      BY <1>1, <1>2 DEF Calm
<1>4. VisitsBeforeInterrupt - PhaseSeed(m) - 1 \in Nat
      BY <1>1, VisitsLeft
<1>5. QED
      BY <1>1, <1>2, <1>3, <1>4, PolledReturns DEF NativeMainPoll

LEMMA NativePendingBlankKeeps ==
  ASSUME IInv, NEW s \in Session, NativePendingBlank(s)
  PROVE  IInv'
<1> DEFINE m == machine[s]
<1>1. /\ m \in Machine /\ s \notin refused /\ call[s] = "native"
      /\ Mixed(s) \/ Calm(m, call[s])
      /\ m.place = "early" /\ m.place \in Loop
      BY AtStep DEF NativePendingBlank, InNative, Loop
<1>2. Mixed(s) \/ (m.seen = 0 /\ m.visits["oracle"] = 0)
      BY <1>1 DEF Calm
<1>3. QED
      BY <1>1, <1>2, PolledReturns DEF NativePendingBlank

LEMMA NativeEarlyPollKeeps ==
  ASSUME IInv, NEW s \in Session, NativeEarlyPoll(s)
  PROVE  IInv'
<1> DEFINE m == machine[s]
<1>1. /\ m \in Machine /\ s \notin refused /\ call[s] = "native"
      /\ m.visits["native"] > 0 => Stopped(s, "native")
      /\ Mixed(s) \/ Calm(m, call[s])
      /\ m.place = "early" /\ m.place \in Loop
      BY AtStep DEF NativeEarlyPoll, InNative, Loop
<1>2. Mixed(s) \/ (m.seen = 0 /\ m.visits["oracle"] = 0)
      BY <1>1 DEF Calm
<1>3. CASE EarlyRepeats(m)
      BY <1>1, <1>2, <1>3, VisitsLeft, PolledReturns DEF NativeEarlyPoll
<1>4. CASE ~ EarlyRepeats(m)
  <2>1. Returns(s, EarlyExit(m))
        BY <1>4 DEF NativeEarlyPoll
  <2>2. Mixed(s) \/ Calm(EarlyExit(m), "none")
        BY <1>1, <1>2, EarlyExitFacts DEF Calm
  <2>3. QED
        BY <1>1, <2>1, <2>2, EarlyExitFacts, ReturnsKeeps DEF Stepper
<1>5. QED
      BY <1>3, <1>4

LEMMA NativeTexturePollKeeps ==
  ASSUME IInv, NEW s \in Session, NativeTexturePoll(s)
  PROVE  IInv'
<1> DEFINE m == machine[s]
<1>1. /\ m \in Machine /\ s \notin refused /\ call[s] = "native"
      /\ m.visits["native"] > 0 => Stopped(s, "native")
      /\ Mixed(s) \/ Calm(m, call[s])
      /\ m.place = "texture" /\ m.place \in Loop
      BY AtStep DEF NativeTexturePoll, InNative, Loop
<1>2. Mixed(s) \/ (m.seen = 0 /\ m.visits["oracle"] = 0)
      BY <1>1 DEF Calm
<1>3. CASE m.byte # m.seen
  <2> DEFINE e == [Polled(m, 1) EXCEPT !.place = "early"]
  <2>1. /\ e \in Machine /\ e.place = "early"
        /\ e.seen = m.seen /\ e.visits = m.visits
        BY <1>1, PolledOnce DEF Machine, Place, Loop
  <2>2. QED
        BY <1>1, <1>2, <1>3, <2>1, ObservedReturns DEF NativeTexturePoll
<1>4. CASE m.byte = m.seen /\ script[m.wait] = "released"
  <2>1. Returns(s, WaitOver(Polled(m, 1)))
        BY <1>4 DEF NativeTexturePoll
  <2>2. /\ WaitOver(Polled(m, 1)) \in Machine
        /\ WaitOver(Polled(m, 1)).place = "run"
        /\ WaitOver(Polled(m, 1)).byte = m.byte
        /\ WaitOver(Polled(m, 1)).seen = m.seen
        /\ WaitOver(Polled(m, 1)).visits = m.visits
        BY <1>1, PolledOnce, WaitOverFacts
  <2>3. Mixed(s) \/ Calm(WaitOver(Polled(m, 1)), "none")
        BY <1>2, <1>4, <2>2 DEF Calm
  <2>4. QED
        BY <1>1, <2>1, <2>2, <2>3, ReturnsKeeps DEF Stepper
<1>5. CASE m.byte = m.seen /\ script[m.wait] # "released"
      BY <1>1, <1>2, <1>5, VisitsLeft, PolledReturns DEF NativeTexturePoll
<1>6. QED
      BY <1>3, <1>4, <1>5

LEMMA NativeHandlerKeeps ==
  ASSUME IInv, NEW s \in Session, NativeHandler(s)
  PROVE  IInv'
<1> DEFINE m == machine[s]
<1>1. /\ m \in Machine /\ s \notin refused /\ call[s] = "native"
      /\ m.visits["native"] > 0 => Stopped(s, "native")
      /\ Mixed(s) \/ Calm(m, call[s])
      /\ m.place = "handler"
      BY AtStep DEF NativeHandler, InNative
<1>2. Calm(m, call[s]) => Calm(Handled(m), call[s])
      BY <1>1, HandledFacts DEF Calm
<1>3. QED
      BY <1>1, <1>2, HandledFacts, ContinuesKeeps DEF NativeHandler

\* The visit on the way back: behind the main loop's the byte is 1 and was 0,
\* so the block refuses only what both steppers have stopped.
LEMMA NativeReturnKeeps ==
  ASSUME IInv, NEW s \in Session, NativeReturn(s)
  PROVE  IInv'
<1> DEFINE m == machine[s]
           b == [m EXCEPT !.place = m.from]
           o == Observe(b, "native")
<1>1. /\ m \in Machine /\ s \notin refused /\ call[s] = "native"
      /\ m.visits["native"] > 0 => Stopped(s, "native")
      /\ Mixed(s) \/ Calm(m, call[s])
      /\ m.place = "return"
      BY AtStep DEF NativeReturn, InNative
<1>2. /\ b \in Machine /\ b.place = m.from /\ b.byte = m.byte
      /\ b.seen = m.seen /\ b.visits = m.visits /\ b.place \in Loop
      BY <1>1 DEF Machine, Place
<1>3. "native" \in Stepper /\ "oracle" \in Stepper /\ b.visits["native"] \in Nat
      BY <1>2 DEF Stepper, Machine
<1>4. o \in Machine /\ o.byte = m.byte /\ o.seen = m.seen
      BY <1>2, <1>3, ObserveFacts
<1>5. \/ o.place = m.from
      \/ o.place = "handler" /\ b.visits["native"] + 1 >= VisitsBeforeInterrupt
      BY <1>2, <1>3, ObserveFacts
<1>6. o.visits["oracle"] = m.visits["oracle"]
      BY <1>2, ObserveNativeVisits
<1>7. o.place = "handler" => Mixed(s)
      BY <1>1, <1>2, <1>3, <1>5, WaitAssumption DEF Calm, Loop
<1>8. CASE o.place \in {"early", "texture"} /\ Returns(s, o)
  <2>1. Mixed(s) \/ Calm(o, "none")
        BY <1>1, <1>4, <1>6, <1>8 DEF Calm
  <2>2. QED
        BY <1>1, <1>3, <1>4, <1>8, <2>1, ReturnsKeeps
<1>9. CASE /\ o.place = "poll" /\ m.byte # m.seen
           /\ Returns(s, [Polled(o, 1) EXCEPT !.place = "changed"])
  <2> DEFINE c == [Polled(o, 1) EXCEPT !.place = "changed"]
  <2>1. /\ c \in Machine /\ c.place = "changed" /\ c.byte = m.byte
        /\ c.seen = m.seen /\ c.visits["oracle"] = m.visits["oracle"]
        BY <1>4, <1>6, PolledOnce DEF Machine, Place
  <2>2. m.from = "poll"
        BY <1>5, <1>9
  <2>3. Mixed(s) \/ Calm(c, "none")
        BY <1>1, <2>1, <2>2 DEF Calm
  <2>4. QED
        BY <1>1, <1>3, <1>9, <2>1, <2>3, ReturnsKeeps
<1>10. CASE /\ o.place = "handler" \/ (o.place = "poll" /\ m.byte = m.seen)
            /\ Refuses(s, o)
  <2>1. o.place = "poll" /\ m.byte = m.seen => Mixed(s)
        BY <1>1, <1>5 DEF Calm
  <2>2. Mixed(s)
        BY <1>7, <1>10, <2>1
  <2>3. QED
        BY <1>4, <1>10, <2>2, RefusesKeeps
<1>11. QED
       BY <1>8, <1>9, <1>10 DEF NativeReturn

LEMMA NativeTimerSuffixKeeps ==
  ASSUME IInv, NEW s \in Session, NativeTimerSuffix(s)
  PROVE  IInv'
<1> DEFINE m == machine[s]
<1>1. /\ m \in Machine /\ s \notin refused /\ call[s] = "native"
      /\ m.visits["native"] > 0 => Stopped(s, "native")
      /\ Mixed(s) \/ Calm(m, call[s])
      /\ m.place = "changed"
      BY AtStep DEF NativeTimerSuffix, InNative
<1>2. CASE m.byte >= 2
  <2>1. Mixed(s)
        BY <1>1, <1>2 DEF Calm
  <2>2. QED
        BY <1>1, <1>2, <2>1, RefusesKeeps DEF NativeTimerSuffix
<1>3. CASE ~ (m.byte >= 2)
  <2> DEFINE z == [m EXCEPT !.byte = 0]
  <2>1. z \in Machine /\ z.byte = 0 /\ z.seen = m.seen /\ z.visits = m.visits
        BY <1>1 DEF Machine
  <2>2. /\ WaitOver(z) \in Machine /\ WaitOver(z).place = "run"
        /\ WaitOver(z).byte = 0 /\ WaitOver(z).seen = m.seen
        /\ WaitOver(z).visits = m.visits
        BY <2>1, WaitOverFacts
  <2>3. Calm(m, call[s]) => Calm(WaitOver(z), call[s])
        BY <1>1, <2>2 DEF Calm
  <2>4. Continues(s, WaitOver(z))
        BY <1>3 DEF NativeTimerSuffix
  <2>5. QED
        BY <1>1, <2>2, <2>3, <2>4, ContinuesKeeps
<1>4. QED
      BY <1>2, <1>3

\* The program's own instructions keep a calm machine calm; a loop they read
\* in has not run into its threshold.
LEMMA InstructionsFacts ==
  ASSUME NEW m \in Machine, NEW n \in Machine,
         \/ n = m /\ m.place \notin Loop
         \/ /\ m.place \in Loop
            /\ n.place = m.place /\ n.byte = m.byte /\ n.seen = m.seen
            /\ n.visits["native"] = m.visits["native"]
  PROVE  /\ Instructions(n) \in Machine
         /\ Instructions(n).visits["native"] = m.visits["native"]
         /\ Calm(m, "oracle") => Calm(Instructions(n), "oracle")
<1> DEFINE i == Instructions(n)
<1>1. CASE n.place = "run"
  <2>1. i = AtWait(n) /\ n = m
        BY <1>1 DEF Instructions, Loop
  <2>2. /\ i \in Machine /\ i.place \in {"entry", "early", "texture"}
        /\ i.byte = m.byte /\ i.visits = m.visits /\ i.seen \in {m.seen, m.byte}
        BY <2>1, AtWaitFacts
  <2>3. QED
        BY <1>1, <2>1, <2>2 DEF Calm
<1>2. CASE n.place = "entry"
  <2>1. i = [n EXCEPT !.place = "poll", !.seen = n.byte]
        BY <1>2 DEF Instructions
  <2>2. /\ i \in Machine /\ i.place = "poll" /\ i.seen = n.byte
        /\ i.byte = n.byte /\ i.visits = n.visits
        BY <2>1 DEF Machine, Place, Loop
  <2>3. QED
        BY <1>2, <2>2 DEF Calm, Loop
<1>3. CASE n.place = "poll" /\ n.byte = n.seen
  <2>1. i = Polled(n, 1)
        BY <1>3 DEF Instructions
  <2>2. Calm(m, "oracle") => Calm(i, "oracle")
        BY <1>3, <2>1, PolledOnce DEF Calm, Loop
  <2>3. QED
        BY <1>3, <2>1, <2>2, PolledOnce DEF Loop
<1>4. CASE n.place = "poll" /\ n.byte # n.seen
  <2>1. i = [Polled(n, 1) EXCEPT !.place = "changed"]
        BY <1>4 DEF Instructions
  <2>2. /\ i \in Machine /\ i.place = "changed" /\ i.seen = n.seen
        /\ i.byte = n.byte /\ i.visits = n.visits
        BY <2>1, PolledOnce DEF Machine, Place
  <2>3. QED
        BY <1>4, <2>2 DEF Calm, Loop
<1>5. CASE n.place = "changed"
  <2>1. i = WaitOver([n EXCEPT !.byte = 0])
        BY <1>5 DEF Instructions
  <2>2. /\ [n EXCEPT !.byte = 0] \in Machine
        /\ [n EXCEPT !.byte = 0].byte = 0
        /\ [n EXCEPT !.byte = 0].seen = n.seen
        /\ [n EXCEPT !.byte = 0].visits = n.visits
        BY DEF Machine
  <2>3. /\ i \in Machine /\ i.place = "run" /\ i.byte = 0
        /\ i.seen = n.seen /\ i.visits = n.visits
        BY <2>1, <2>2, WaitOverFacts
  <2>4. n = m
        BY <1>5 DEF Loop
  <2>5. QED
        BY <1>5, <2>3, <2>4 DEF Calm
<1>6. CASE n.place = "early" /\ EarlyRepeats(n)
  <2>1. i = Polled(n, 1)
        BY <1>6 DEF Instructions
  <2>2. QED
        BY <1>6, <2>1, PolledOnce DEF Calm, Loop
<1>7. CASE n.place = "early" /\ ~ EarlyRepeats(n)
  <2>1. i = EarlyExit(n)
        BY <1>7 DEF Instructions
  <2>2. QED
        BY <1>7, <2>1, EarlyExitFacts DEF Calm, Loop
<1>8. CASE n.place = "texture" /\ n.byte # n.seen
  <2>1. i = [Polled(n, 1) EXCEPT !.place = "early"]
        BY <1>8 DEF Instructions
  <2>2. /\ i \in Machine /\ i.place = "early" /\ i.seen = n.seen
        /\ i.visits = n.visits
        BY <2>1, PolledOnce DEF Machine, Place, Loop
  <2>3. QED
        BY <1>8, <2>2 DEF Calm, Loop
<1>9. CASE n.place = "texture" /\ n.byte = n.seen
  <2>1. i \in {WaitOver(Polled(n, 1)), Polled(n, 1)}
        BY <1>9 DEF Instructions
  <2>2. /\ i \in Machine /\ i.place \in {"run", "texture"}
        /\ i.byte = n.byte /\ i.seen = n.seen /\ i.visits = n.visits
        BY <1>9, <2>1, PolledOnce, WaitOverFacts
  <2>3. QED
        BY <1>9, <2>2 DEF Calm, Loop
<1>10. CASE n.place = "handler"
  <2>1. i = Handled(n)
        BY <1>10 DEF Instructions
  <2>2. QED
        BY <1>10, <2>1, HandledFacts DEF Calm, Loop
<1>11. CASE n.place = "return"
  <2>1. i = [n EXCEPT !.place = n.from]
        BY <1>11 DEF Instructions
  <2>2. /\ i \in Machine /\ i.place = n.from /\ i.from = n.from
        /\ i.place \in Loop
        /\ i.byte = n.byte /\ i.seen = n.seen /\ i.visits = n.visits
        BY <2>1 DEF Machine, Place
  <2>3. n = m
        BY <1>11 DEF Loop
  <2>4. Calm(m, "oracle") => Calm(i, "oracle")
        BY <1>11, <2>2, <2>3 DEF Calm, Loop
  <2>5. QED
        BY <2>2, <2>3, <2>4
<1>12. n.place \in Place
       BY DEF Machine
<1>13. QED
       BY <1>1, <1>2, <1>3, <1>4, <1>5, <1>6, <1>7, <1>8, <1>9, <1>10, <1>11,
          <1>12 DEF Place, Loop

LEMMA OracleIterateKeeps ==
  ASSUME IInv, NEW s \in Session, OracleIterate(s)
  PROVE  IInv'
<1> DEFINE m == machine[s]
           o == Observe(m, "oracle")
<1>1. /\ m \in Machine /\ s \notin refused /\ call[s] = "oracle"
      /\ m.visits["native"] > 0 => Stopped(s, "native")
      /\ Mixed(s) \/ Calm(m, call[s])
      BY AtStep DEF OracleIterate
<1>2. /\ "native" \in Stepper /\ "oracle" \in Stepper
      /\ m.visits \in [Stepper -> 0 .. VisitsBeforeInterrupt - 1]
      BY <1>1 DEF Stepper, Machine
<1>3. o \in Machine /\ o.byte = m.byte /\ o.seen = m.seen
      BY <1>1, <1>2, ObserveFacts
<1>4. o.visits["native"] = m.visits["native"]
  <2>1. \/ o = m
        \/ o.visits = [m.visits EXCEPT !["oracle"] = @ + 1]
        \/ o.visits = [m.visits EXCEPT !["oracle"] = 0]
        BY <1>1, <1>2, ObserveFacts
  <2>2. QED
        BY <1>2, <2>1
<1>5. CASE m.place \in Loop /\ o.place = "handler"
  <2>1. /\ o.from = m.place
        /\ m.visits["oracle"] + 1 >= VisitsBeforeInterrupt
        /\ o.visits = [m.visits EXCEPT !["oracle"] = 0]
        BY <1>1, <1>2, <1>5, ObserveFacts DEF Loop
  <2>2. o.visits["oracle"] = 0 /\ m.visits["oracle"] # 0
        BY <1>2, <2>1, WaitAssumption
  <2>3. CASE m.visits["native"] > 0
    <3>1. Stopped(s, "native")
          BY <1>1, <2>3
    <3>2. QED
          BY <1>1, <1>2, <1>3, <1>5, <3>1, ReturnsKeeps DEF OracleIterate
  <2>4. CASE ~ (m.visits["native"] > 0)
    <3>1. o.visits["native"] = 0
          BY <1>2, <1>4, <2>4
    <3>2. Mixed(s) \/ Calm(o, "none")
          BY <1>1, <1>3, <1>5, <2>1, <2>2, <3>1 DEF Calm
    <3>3. QED
          BY <1>1, <1>2, <1>3, <1>5, <3>1, <3>2, ReturnsKeeps DEF OracleIterate
  <2>5. QED
        BY <2>3, <2>4
<1>6. CASE ~ (m.place \in Loop /\ o.place = "handler")
  <2>1. Continues(s, Instructions(o))
        BY <1>6 DEF OracleIterate
  <2>2. \/ o = m /\ m.place \notin Loop
        \/ m.place \in Loop /\ o.place = m.place
        BY <1>1, <1>2, <1>6, ObserveFacts
  <2>3. /\ Instructions(o) \in Machine
        /\ Instructions(o).visits["native"] = m.visits["native"]
        /\ Calm(m, "oracle") => Calm(Instructions(o), "oracle")
        BY <1>1, <1>3, <1>4, <2>2, InstructionsFacts
  <2>4. QED
        BY <1>1, <2>1, <2>3, ContinuesKeeps
<1>7. QED
      BY <1>5, <1>6

LEMMA BeginCallKeeps ==
  ASSUME IInv, NEW s \in Session, NEW w \in Stepper, BeginCall(s, w)
  PROVE  IInv'
<1>1. TypeOK'
      BY DEF IInv, TypeOK, BeginCall
<1>2. call[s] = "none" /\ call'[s] = w
      BY DEF BeginCall, IInv, TypeOK
<1>3. Calm(machine[s], call[s]) => Calm(machine[s], w)
      BY <1>2 DEF Calm
<1>4. SessionInv(s)'
      BY <1>2, <1>3 DEF IInv, SessionInv, BeginCall, Mixed, Stopped
<1>5. ASSUME NEW t \in Session, t # s PROVE SessionInv(t)'
      BY <1>5, OthersKept DEF IInv, TypeOK, BeginCall
<1>6. QED
      BY <1>1, <1>4, <1>5 DEF IInv

LEMMA InitIInv == Init => IInv
<1> SUFFICES ASSUME Init PROVE IInv
    OBVIOUS
<1>1. Start \in Machine
  <2>1. [w \in Stepper |-> 0] \in [Stepper -> 0 .. VisitsBeforeInterrupt - 1]
        BY WaitAssumption
  <2>2. 0 \in 0 .. PollCap
        BY WaitAssumption DEF PollCap
  <2>3. QED
        BY <2>1, <2>2 DEF Init, Start, Machine, Place, Loop
<1>2. TypeOK
      BY <1>1 DEF Init, TypeOK
<1>3. ASSUME NEW s \in Session PROVE SessionInv(s)
  <2>1. machine[s] = Start /\ s \notin refused
        BY DEF Init
  <2>2. /\ Start.seen = 0 /\ Start.place = "run" /\ Start.byte = 0
        /\ Start.visits["native"] = 0 /\ Start.visits["oracle"] = 0
        BY DEF Start, Stepper
  <2>3. Calm(machine[s], call[s])
        BY <2>1, <2>2 DEF Calm
  <2>4. QED
        BY <2>1, <2>2, <2>3 DEF SessionInv
<1>4. QED
      BY <1>2, <1>3 DEF IInv

LEMMA NextIInv == IInv /\ [Next]_vars => IInv'
<1> SUFFICES ASSUME IInv, [Next]_vars PROVE IInv'
    OBVIOUS
<1>1. CASE UNCHANGED vars
  <2>1. TypeOK'
        BY <1>1 DEF vars, IInv, TypeOK
  <2>2. ASSUME NEW s \in Session PROVE SessionInv(s)'
        BY <1>1, OthersKept DEF vars, IInv
  <2>3. QED
        BY <2>1, <2>2 DEF IInv
<1>2. ASSUME NEW s \in Session, NEW w \in Stepper, BeginCall(s, w) PROVE IInv'
      BY <1>2, BeginCallKeeps
<1>3. ASSUME NEW s \in Session, Step(s) PROVE IInv'
      BY <1>3, NativeToWaitKeeps, NativeTextureEntryKeeps, NativeMainPollKeeps,
         NativePendingBlankKeeps, NativeEarlyPollKeeps, NativeTexturePollKeeps,
         NativeHandlerKeeps, NativeReturnKeeps, NativeTimerSuffixKeeps,
         OracleIterateKeeps
      DEF Step
<1>4. QED
      BY <1>1, <1>2, <1>3 DEF Next

LEMMA Invariance == Spec => []IInv
BY InitIInv, NextIInv, PTL DEF Spec

-------------------------------------------------------------------------------
\* The frame byte stays a byte, no count of visits reaches the threshold
\* (frame_wait.c:49 injects there), and a call ends in one of the stops.
THEOREM TypeCorrect == Spec => []TypeOK
<1>1. IInv => TypeOK
      BY DEF IInv
<1>2. QED
      BY Invariance, <1>1, PTL

\* The refusals of the frame-wait blocks (frame_wait.c:252, and the byte checks
\* of native_runtime.c) need both steppers on one machine: a session stepped
\* by the native runtime alone, or by the oracle alone, never meets one.
THEOREM RefusalTakesBoth == Spec => []RefusalNeedsBoth
<1>1. ASSUME IInv PROVE RefusalNeedsBoth
  <2>1. refused \subseteq Session
        BY <1>1 DEF IInv, TypeOK
  <2>2. \A s \in refused : Mixed(s)
        BY <1>1, <2>1 DEF IInv, SessionInv
  <2>3. QED
        BY <2>2 DEF RefusalNeedsBoth, Mixed, Stopped
<1>2. QED
      BY Invariance, <1>1, PTL

-------------------------------------------------------------------------------
(* The course of a program through its waits, as both steppers follow it:  *)
(* a point is where neither has done more than the other.                  *)

\* A frame of a course: the wait and the loop interrupted, the frame byte and
\* how often it was read since the frame before.
Frame == [wait : Nat \ {0}, from : Loop, byte : 0 .. 255, reads : 0 .. PollCap]

Capped(n) == IF n > PollCap THEN PollCap ELSE n

\* Behind a handler nothing is counted yet, so a loop that can be left is left.
Sound(c) ==
  /\ c.place = "run" => c.byte = 0
  /\ c.place \in {"poll", "texture"} => c.byte # 2 /\ (c.byte = 1 => c.visits = 0)
  /\ c.place = "early" => (c.byte = 2 => c.visits = 0)
  /\ c.place = "handler" =>
       c.byte # 2 /\ c.visits = 0 /\ (c.from # "early" => c.byte = 0)

Anywhere ==
  [place : Loop \cup {"run", "handler"}, from : Loop, byte : 0 .. 2,
   wait : Nat \ {0}, visits : 0 .. VisitsBeforeInterrupt - 1,
   polls : 0 .. PollCap, log : Seq(Frame)]

Point == {c \in Anywhere : Sound(c)}

Outset ==
  [place |-> "run", from |-> "poll", byte |-> 0, wait |-> 1, visits |-> 0,
   polls |-> 0, log |-> <<>>]

\* The loop is left at the next read.
Leaves(sc, c) ==
  \/ c.place = "poll" /\ c.byte # 0
  \/ c.place = "early" /\ c.byte = 2
  \/ c.place = "texture" /\ (c.byte # 0 \/ sc[c.wait] = "released")

Blank(c) ==
  [c EXCEPT !.place = "handler", !.from = c.place, !.visits = 0,
     !.log = Append(@,
       [wait |-> c.wait, from |-> c.place, byte |-> c.byte,
        reads |-> Capped(c.polls + ((VisitsBeforeInterrupt - 1) - c.visits))])]

ReadOnce(c) == [c EXCEPT !.visits = @ + 1, !.polls = Capped(@ + 1)]
Over(c) == [c EXCEPT !.place = "run", !.wait = @ + 1, !.byte = 0]

FirstLoop(kind) ==
  CASE kind = "main" -> "poll" [] kind = "early" -> "early" [] OTHER -> "texture"

Onward(sc, c) ==
  IF c.place = "run"
  THEN IF c.wait > Len(sc) THEN c ELSE [c EXCEPT !.place = FirstLoop(sc[c.wait])]
  ELSE IF c.place = "handler"
  THEN [c EXCEPT !.place = c.from, !.byte = @ + 1, !.polls = 0]
  ELSE IF ~ Leaves(sc, c) \/ c.visits + 1 = VisitsBeforeInterrupt THEN Blank(c)
  ELSE IF c.place = "texture" /\ c.byte # 0 THEN [ReadOnce(c) EXCEPT !.place = "early"]
  ELSE Over(ReadOnce(c))

Reached(sc, c) ==
  \E n \in Nat : \E g \in [0 .. n -> Point] :
    /\ g[0] = Outset
    /\ \A k \in 1 .. n : g[k] = Onward(sc, g[k - 1])
    /\ g[n] = c

\* Where a machine stands that only the oracle has stepped.
OracleAt(sc, m, c) ==
  /\ m.seen = 0
  /\ LET v == m.visits["oracle"]
         same == m.wait = c.wait /\ m.byte = c.byte
         even == v = c.visits /\ m.polls = c.polls IN
     \/ m.place = "run" /\ c.place = "run" /\ same /\ even
     \/ m.place = "entry" /\ c.place = "poll" /\ same /\ even /\ m.byte = 0
     \/ /\ m.place \in Loop /\ c.place = m.place /\ same
        /\ c.visits <= v /\ m.polls = Capped(c.polls + (v - c.visits))
        /\ v # c.visits => ~ Leaves(sc, c)
     \/ m.place = "handler" /\ c.place = "handler" /\ same /\ v = 0 /\ c.from = m.from
     \/ m.place = "return" /\ c.place = m.from /\ same /\ even /\ v = 0 /\ m.polls = 0
     \/ /\ m.place = "changed" /\ c.place = "run" /\ even
        /\ c.wait = m.wait + 1 /\ c.byte = 0

\* Where a machine stands that only the native runtime has stepped: the visit
\* to a loop is counted on arrival, except by a wait whose blank is due at once.
NativeAt(sc, m, c) ==
  /\ m.seen = 0
  /\ LET v == m.visits["native"]
         same == m.wait = c.wait /\ m.byte = c.byte
         even == v = c.visits /\ m.polls = c.polls
         arrived == v = c.visits + 1 /\ m.polls = c.polls IN
     \/ m.place = "run" /\ c.place = "run" /\ same /\ even
     \/ m.place = "entry" /\ c.place = "poll" /\ same /\ even /\ m.byte = 0
     \/ /\ m.place = "early" /\ c.place = "early" /\ same
        /\ IF sc[m.wait] = "early" /\ m.byte = 0 THEN even ELSE arrived
     \/ m.place = "texture" /\ c.place = "texture" /\ same /\ arrived
     \/ m.place = "handler" /\ c.place = "handler" /\ same /\ v = 0 /\ c.from = m.from
     \/ m.place = "return" /\ c.place = m.from /\ same /\ even /\ v = 0 /\ m.polls = 0
          /\ m.byte # 0
     \/ /\ m.place = "changed" /\ c.place = "run" /\ even /\ m.byte = 1
        /\ c.wait = m.wait + 1 /\ c.byte = 0

\* The stop r is the frame f.
IsFrame(r, f) ==
  /\ r.place = "handler" /\ r.request = TRUE
  /\ r.wait = f.wait /\ r.from = f.from /\ r.byte = f.byte

Missed(sc, fam, k, r, f) ==
  IF sc[r.wait] = "early" /\ r.byte = 0 THEN f.reads - r.polls
  ELSE IF k = 1 /\ fam /\ sc[r.wait] = "main" THEN 1 ELSE 0

OracleLog(q, log) ==
  /\ Len(q) = Len(log)
  /\ \A k \in 1 .. Len(log) : IsFrame(q[k], log[k]) /\ q[k].polls = log[k].reads

NativeLog(sc, fam, q, log) ==
  /\ Len(q) = Len(log)
  /\ \A k \in 1 .. Len(log) :
       IsFrame(q[k], log[k]) /\ log[k].reads = q[k].polls + Missed(sc, fam, k, q[k], log[k])

\* A machine resumed from a snapshot of the family has made no visit and waits
\* in the main loop until its first frame.
Seeded(sc, fam, m, c) ==
  IF c.log = <<>>
  THEN fam => /\ m.entered /\ ~ m.injected["native"] /\ m.visits["native"] = 0
              /\ m.polls = 0 /\ m.wait = 1 /\ m.place \in {"run", "entry"}
              /\ sc[1] = "main"
  ELSE m.injected["native"]

-------------------------------------------------------------------------------
(* Numbers.                                                                *)

\* A set of numbers that is not empty has a least one.
LEMMA Least ==
  ASSUME NEW S \in SUBSET Nat, S # {}
  PROVE  \E m \in S : \A k \in S : m <= k
<1>1. IsWellFoundedOn(OpToRel(<, Nat), Nat)
      BY NatLessThanWellFounded
<1>2. PICK m \in S : \A k \in S : ~ (<<k, m>> \in OpToRel(<, Nat))
      BY <1>1, WFMin
<1>3. ASSUME NEW k \in S PROVE m <= k
  <2>1. k \in Nat /\ m \in Nat
        OBVIOUS
  <2>2. ~ (k < m)
        BY <1>2, <2>1 DEF OpToRel
  <2>3. QED
        BY <2>1, <2>2
<1>4. QED
      BY <1>3

\* What holds of 0 and goes from each number below n to the next.
LEMMA Inductive ==
  ASSUME NEW n \in Nat, NEW G, 0 \in G, \A k \in 1 .. n : k - 1 \in G => k \in G
  PROVE  \A k \in 0 .. n : k \in G
<1> DEFINE Bad == {k \in 0 .. n : k \notin G}
<1>1. SUFFICES ASSUME Bad # {} PROVE FALSE
      OBVIOUS
<1>2. PICK m \in Bad : \A k \in Bad : m <= k
  <2>1. Bad \in SUBSET Nat
        OBVIOUS
  <2> HIDE DEF Bad
  <2>2. QED
        BY <1>1, <2>1, Least
<1>3. m \in 1 .. n /\ m - 1 \in 0 .. n /\ ~ (m <= m - 1)
      OBVIOUS
<1>4. QED
      BY <1>2, <1>3

-------------------------------------------------------------------------------
(* The stops at the handler.                                               *)

Take(f, r) == IF r.place = "handler" THEN Append(f, r) ELSE f

Alike(q, p, n) == \A k \in 1 .. n : p[k] = q[k]

Takes(f, q, n) == f[0] = <<>> /\ \A k \in 1 .. n : f[k] = Take(f[k - 1], q[k])

LEMMA TakeType ==
  ASSUME NEW f \in Seq(Stop), NEW r \in Stop
  PROVE  Take(f, r) \in Seq(Stop)
BY DEF Take

LEMMA TakesExists ==
  ASSUME NEW q \in Seq(Stop)
  PROVE  \E f \in [0 .. Len(q) -> Seq(Stop)] : Takes(f, q, Len(q))
<1> DEFINE N == Len(q)
           G == {n \in Nat : \E f \in [0 .. n -> Seq(Stop)] : Takes(f, q, n)}
<1>1. N \in Nat /\ \A k \in 1 .. N : q[k] \in Stop
      OBVIOUS
<1>2. 0 \in G
  <2>1. <<>> \in Seq(Stop)
        OBVIOUS
  <2> DEFINE f == [k \in 0 .. 0 |-> <<>>]
  <2>2. f \in [0 .. 0 -> Seq(Stop)] /\ Takes(f, q, 0)
        BY <2>1 DEF Takes
  <2>3. QED
        BY <2>2
<1> HIDE DEF N
<1>3. ASSUME NEW n \in 1 .. N, n - 1 \in G PROVE n \in G
  <2>1. n \in Nat /\ n - 1 \in Nat /\ n - 1 # n /\ q[n] \in Stop
        BY <1>1
  <2>2. PICK f \in [0 .. n - 1 -> Seq(Stop)] : Takes(f, q, n - 1)
        BY <1>3
  <2> DEFINE h == [k \in 0 .. n |-> IF k = n THEN Take(f[n - 1], q[n]) ELSE f[k]]
  <2>3. \A k \in 0 .. n : k # n => k \in 0 .. n - 1
        BY <2>1
  <2>4. f[n - 1] \in Seq(Stop)
        BY <2>1
  <2>5. Take(f[n - 1], q[n]) \in Seq(Stop)
        BY <2>1, <2>4, TakeType
  <2>6. h \in [0 .. n -> Seq(Stop)]
        BY <2>3, <2>5
  <2>7. h[0] = <<>>
        BY <2>1, <2>2 DEF Takes
  <2>8. ASSUME NEW k \in 1 .. n PROVE h[k] = Take(h[k - 1], q[k])
    <3>1. k \in Nat /\ k - 1 \in 0 .. n - 1 /\ k - 1 # n /\ k - 1 \in 0 .. n /\ k \in 0 .. n
          BY <2>1
    <3>2. h[k - 1] = f[k - 1]
          BY <3>1
    <3>3. CASE k = n
          BY <3>1, <3>2, <3>3
    <3>4. CASE k # n
      <4>1. k \in 1 .. n - 1
            BY <2>1, <3>1, <3>4
      <4>2. QED
            BY <2>2, <3>1, <3>2, <3>4, <4>1 DEF Takes
    <3>5. QED
          BY <3>3, <3>4
  <2> HIDE DEF h
  <2>9. Takes(h, q, n)
        BY <2>7, <2>8 DEF Takes
  <2>10. QED
        BY <2>1, <2>6, <2>9
<1> HIDE DEF G
<1>4. \A k \in 0 .. N : k \in G
      BY <1>1, <1>2, <1>3, Inductive
<1>5. N \in G
      BY <1>1, <1>4
<1>6. QED
      BY <1>5 DEF G, N

\* What takes the same stops is the same.
LEMMA TakesUnique ==
  ASSUME NEW n \in Nat, NEW q, NEW p, Alike(q, p, n),
         NEW f, Takes(f, q, n), NEW h, Takes(h, p, n)
  PROVE  h[n] = f[n]
<1> DEFINE G == {k \in Nat : h[k] = f[k]}
<1>1. 0 \in G
      BY DEF Takes
<1>2. ASSUME NEW k \in 1 .. n, k - 1 \in G PROVE k \in G
  <2>1. k \in Nat /\ h[k - 1] = f[k - 1] /\ p[k] = q[k]
        BY <1>2 DEF Alike
  <2>2. h[k] = f[k]
        BY <2>1 DEF Takes
  <2>3. QED
        BY <2>1, <2>2
<1> HIDE DEF G
<1>3. \A k \in 0 .. n : k \in G
      BY <1>1, <1>2, Inductive
<1>4. n \in G
      BY <1>3
<1>5. QED
      BY <1>4 DEF G

\* AtHandler is what taking stop after stop gives.
LEMMA AtHandlerIs ==
  ASSUME NEW q \in Seq(Stop)
  PROVE  \E f \in [0 .. Len(q) -> Seq(Stop)] : Takes(f, q, Len(q)) /\ AtHandler(q) = f[Len(q)]
<1> DEFINE N == Len(q)
           Body(g) == [i \in 0 .. N |->
                        IF i = 0 THEN <<>>
                        ELSE IF q[i].place = "handler" THEN Append(g[i - 1], q[i])
                        ELSE g[i - 1]]
<1>1. N \in Nat
      OBVIOUS
<1>2. AtHandler(q) = (CHOOSE g : g = Body(g))[N]
      BY DEF AtHandler
<1>3. \E g : g = Body(g)
  <2>1. PICK f \in [0 .. N -> Seq(Stop)] : Takes(f, q, N)
        BY TakesExists
  <2> HIDE DEF N
  <2>2. ASSUME NEW i \in 0 .. N
        PROVE  f[i] = IF i = 0 THEN <<>>
                      ELSE IF q[i].place = "handler" THEN Append(f[i - 1], q[i])
                      ELSE f[i - 1]
    <3>1. CASE i = 0
          BY <2>1, <3>1 DEF Takes
    <3>2. CASE i # 0
      <4>1. i \in 1 .. N
            BY <1>1, <3>2
      <4>2. QED
            BY <2>1, <3>2, <4>1 DEF Takes, Take
    <3>3. QED
          BY <3>1, <3>2
  <2>3. f = Body(f)
        BY <2>2
  <2>4. QED
        BY <2>3
<1> DEFINE a == CHOOSE g : g = Body(g)
<1>4. a = Body(a)
      BY <1>3
<1> HIDE DEF a
<1>5. Takes(a, q, N)
  <2> HIDE DEF N
  <2>1. a[0] = <<>>
    <3>1. 0 \in 0 .. N
          BY <1>1
    <3>2. QED
          BY <1>4, <3>1
  <2>2. ASSUME NEW k \in 1 .. N PROVE a[k] = Take(a[k - 1], q[k])
    <3>1. k \in 0 .. N /\ k # 0
          BY <1>1
    <3>2. QED
          BY <1>4, <3>1 DEF Take
  <2>3. QED
        BY <2>1, <2>2 DEF Takes
<1>6. PICK f \in [0 .. N -> Seq(Stop)] : Takes(f, q, N)
      BY TakesExists
<1>7. a[N] = f[N]
  <2> HIDE DEF N
  <2>1. Alike(q, q, N)
        BY DEF Alike
  <2>2. QED
        BY <1>1, <1>5, <1>6, <2>1, TakesUnique
<1>8. AtHandler(q) = f[N]
      BY <1>2, <1>7 DEF a
<1>9. QED
      BY <1>6, <1>8

LEMMA AtHandlerType ==
  ASSUME NEW q \in Seq(Stop)
  PROVE  AtHandler(q) \in Seq(Stop)
<1>1. Len(q) \in Nat
      OBVIOUS
<1>2. QED
      BY <1>1, AtHandlerIs

LEMMA AtHandlerNone == AtHandler(<<>>) = <<>>
<1>1. <<>> \in Seq(Stop) /\ Len(<<>>) = 0
      OBVIOUS
<1>2. PICK f : Takes(f, <<>>, 0) /\ AtHandler(<<>>) = f[0]
      BY <1>1, AtHandlerIs
<1>3. QED
      BY <1>2 DEF Takes

\* A stop at the handler is one more, another changes nothing.
LEMMA AtHandlerAppend ==
  ASSUME NEW q \in Seq(Stop), NEW r \in Stop
  PROVE  AtHandler(Append(q, r)) = Take(AtHandler(q), r)
<1> DEFINE p == Append(q, r)
           n == Len(q)
<1>1. /\ n \in Nat /\ p \in Seq(Stop) /\ Len(p) = n + 1 /\ p[n + 1] = r
      /\ \A k \in 1 .. n : p[k] = q[k]
      OBVIOUS
<1>2. PICK f \in [0 .. n -> Seq(Stop)] : Takes(f, q, n) /\ AtHandler(q) = f[n]
      BY AtHandlerIs
<1> HIDE DEF p, n
<1>3. PICK h \in [0 .. n + 1 -> Seq(Stop)] : Takes(h, p, n + 1) /\ AtHandler(p) = h[n + 1]
      BY <1>1, AtHandlerIs
<1>4. n + 1 \in 1 .. n + 1 /\ (n + 1) - 1 = n /\ \A k \in 1 .. n : k \in 1 .. n + 1
      BY <1>1
<1>5. h[n + 1] = Take(h[n], r)
      BY <1>1, <1>3, <1>4 DEF Takes
<1>6. Takes(h, p, n)
      BY <1>3, <1>4 DEF Takes
<1>7. h[n] = f[n]
  <2> DEFINE G == {k \in Nat : h[k] = f[k]}
  <2>1. h[0] = <<>> /\ f[0] = <<>>
        BY <1>2, <1>6 DEF Takes
  <2>2. ASSUME NEW k \in 1 .. n, k - 1 \in G PROVE k \in G
    <3>1. k \in Nat /\ h[k - 1] = f[k - 1]
          BY <1>1, <2>2
    <3>2. f[k] = Take(f[k - 1], q[k]) /\ h[k] = Take(h[k - 1], p[k])
          BY <1>2, <1>6, <2>2 DEF Takes
    <3>3. QED
          BY <1>1, <2>2, <3>1, <3>2
  <2>3. 0 \in G
        BY <2>1
  <2> HIDE DEF G
  <2>4. n \in G
    <3>1. \A k \in 0 .. n : k \in G
          BY <1>1, <2>2, <2>3, Inductive
    <3>2. QED
          BY <1>1, <3>1
  <2>5. QED
        BY <2>4 DEF G
<1>8. QED
      BY <1>2, <1>3, <1>5, <1>7 DEF p

-------------------------------------------------------------------------------
(* The course.                                                             *)

\* What is known of the constants and of any point.
LEMMA Threshold ==
  /\ VisitsBeforeInterrupt \in Nat /\ VisitsBeforeInterrupt > 1
  /\ PollCap \in Nat /\ 0 \in 0 .. PollCap
  /\ 0 \in 0 .. VisitsBeforeInterrupt - 1
BY WaitAssumption DEF PollCap

LEMMA CappedType ==
  ASSUME NEW n \in Nat
  PROVE  Capped(n) \in 0 .. PollCap
BY Threshold DEF Capped

LEMMA PointFacts ==
  ASSUME NEW c \in Point
  PROVE  /\ c.place \in Loop \cup {"run", "handler"} /\ c.from \in Loop
         /\ c.byte \in 0 .. 2 /\ c.wait \in Nat \ {0}
         /\ c.visits \in 0 .. VisitsBeforeInterrupt - 1
         /\ c.polls \in 0 .. PollCap /\ c.log \in Seq(Frame)
         /\ Sound(c)
BY DEF Point, Anywhere

LEMMA OutsetPoint == Outset \in Point
<1>1. <<>> \in Seq(Frame)
      OBVIOUS
<1>2. Outset \in Anywhere
      BY <1>1, Threshold DEF Outset, Anywhere, Loop
<1>3. Sound(Outset)
      BY Threshold DEF Outset, Sound
<1>4. QED
      BY <1>2, <1>3 DEF Point

\* The frame that a blank at c makes.
FrameOf(c) ==
  [wait |-> c.wait, from |-> c.place, byte |-> c.byte,
   reads |-> Capped(c.polls + ((VisitsBeforeInterrupt - 1) - c.visits))]

LEMMA FrameOfType ==
  ASSUME NEW c \in Point, c.place \in Loop
  PROVE  /\ FrameOf(c) \in Frame
         /\ FrameOf(c).wait = c.wait /\ FrameOf(c).from = c.place
         /\ FrameOf(c).byte = c.byte
         /\ FrameOf(c).reads = Capped(c.polls + ((VisitsBeforeInterrupt - 1) - c.visits))
<1>1. c.polls + ((VisitsBeforeInterrupt - 1) - c.visits) \in Nat
      BY PointFacts, Threshold
<1>2. Capped(c.polls + ((VisitsBeforeInterrupt - 1) - c.visits)) \in 0 .. PollCap
      BY <1>1, CappedType
<1>3. c.wait \in Nat \ {0} /\ c.byte \in 0 .. 255
      BY PointFacts
<1>4. QED
      BY <1>2, <1>3 DEF FrameOf, Frame

\* Each way a course goes on.
LEMMA BlankFacts ==
  ASSUME NEW sc, NEW c \in Point, c.place \in Loop,
         ~ Leaves(sc, c) \/ c.visits + 1 = VisitsBeforeInterrupt
  PROVE  /\ Onward(sc, c) = Blank(c)
         /\ Blank(c) \in Point
         /\ Blank(c).place = "handler" /\ Blank(c).from = c.place
         /\ Blank(c).wait = c.wait /\ Blank(c).byte = c.byte
         /\ Blank(c).visits = 0 /\ Blank(c).polls = c.polls
         /\ Blank(c).log = Append(c.log, FrameOf(c))
<1> DEFINE b == Blank(c)
<1>1. Onward(sc, c) = Blank(c)
      BY DEF Onward, Loop
<1>2. FrameOf(c) \in Frame /\ c.log \in Seq(Frame)
      BY FrameOfType, PointFacts
<1>3. Append(c.log, FrameOf(c)) \in Seq(Frame)
      BY <1>2
<1>4. Blank(c) = [c EXCEPT !.place = "handler", !.from = c.place, !.visits = 0,
                           !.log = Append(c.log, FrameOf(c))]
      BY DEF Blank, FrameOf
<1>5. /\ b.place = "handler" /\ b.from = c.place /\ b.wait = c.wait
      /\ b.byte = c.byte /\ b.visits = 0 /\ b.polls = c.polls
      /\ b.log = Append(c.log, FrameOf(c))
      BY <1>4 DEF Point, Anywhere
<1>6. b \in Anywhere
      BY <1>3, <1>4, Threshold DEF Point, Anywhere
<1>7. Sound(b)
  <2>1. /\ c.byte \in 0 .. 2 /\ c.visits \in 0 .. VisitsBeforeInterrupt - 1
        /\ Sound(c)
        BY PointFacts
  <2>2. c.byte # 2
        BY <2>1, Threshold DEF Sound, Leaves, Loop
  <2>3. c.place # "early" => c.byte = 0
        BY <2>1, Threshold DEF Sound, Leaves, Loop
  <2>4. QED
        BY <1>5, <2>2, <2>3 DEF Sound, Loop
<1>8. b \in Point
      BY <1>6, <1>7 DEF Point, Anywhere
<1>9. QED
      BY <1>1, <1>5, <1>8

LEMMA RunFacts ==
  ASSUME NEW sc, NEW c \in Point, c.place = "run", c.wait <= Len(sc), Len(sc) \in Nat
  PROVE  LET d == Onward(sc, c) IN
         /\ d \in Point
         /\ d.place = FirstLoop(sc[c.wait]) /\ d.place \in Loop
         /\ d.wait = c.wait /\ d.byte = 0 /\ c.byte = 0
         /\ d.visits = c.visits /\ d.polls = c.polls /\ d.log = c.log
<1> DEFINE d == Onward(sc, c)
<1>1. c.wait \in Nat /\ c.byte = 0 /\ Sound(c)
      BY PointFacts DEF Sound
<1>2. d = [c EXCEPT !.place = FirstLoop(sc[c.wait])]
      BY <1>1 DEF Onward
<1>3. FirstLoop(sc[c.wait]) \in Loop
      BY DEF FirstLoop, Loop
<1>4. /\ d.place = FirstLoop(sc[c.wait]) /\ d.wait = c.wait /\ d.byte = c.byte
      /\ d.visits = c.visits /\ d.polls = c.polls /\ d.log = c.log
      BY <1>2 DEF Point, Anywhere
<1>5. d \in Anywhere
      BY <1>2, <1>3 DEF Point, Anywhere
<1>6. Sound(d)
      BY <1>1, <1>3, <1>4 DEF Sound, Loop
<1>7. QED
      BY <1>1, <1>3, <1>4, <1>5, <1>6 DEF Point, Anywhere

LEMMA HandlerFacts ==
  ASSUME NEW sc, NEW c \in Point, c.place = "handler"
  PROVE  LET d == Onward(sc, c) IN
         /\ d \in Point
         /\ d.place = c.from /\ d.place \in Loop /\ d.wait = c.wait
         /\ d.byte = c.byte + 1 /\ c.byte \in 0 .. 1
         /\ d.visits = 0 /\ d.polls = 0 /\ d.log = c.log
<1> DEFINE d == Onward(sc, c)
<1>1. c.byte \in 0 .. 1 /\ c.visits = 0 /\ (c.from # "early" => c.byte = 0) /\ c.from \in Loop
      BY PointFacts DEF Sound
<1>2. d = [c EXCEPT !.place = c.from, !.byte = c.byte + 1, !.polls = 0]
      BY DEF Onward
<1>3. /\ d.place = c.from /\ d.wait = c.wait /\ d.byte = c.byte + 1
      /\ d.visits = 0 /\ d.polls = 0 /\ d.log = c.log
      BY <1>1, <1>2 DEF Point, Anywhere
<1>4. c.byte + 1 \in 0 .. 2
      BY <1>1
<1>5. d \in Anywhere
      BY <1>1, <1>2, <1>4, Threshold DEF Point, Anywhere
<1>6. Sound(d)
      BY <1>1, <1>3 DEF Sound, Loop
<1>7. QED
      BY <1>1, <1>3, <1>5, <1>6 DEF Point, Anywhere

LEMMA OverType ==
  ASSUME NEW r \in Anywhere, NEW w \in Nat \ {0}
  PROVE  [r EXCEPT !.place = "run", !.wait = w, !.byte = 0] \in Anywhere
<1> DEFINE A == Loop \cup {"run", "handler"}
           Y == 0 .. 2
           W == Nat \ {0}
           V == 0 .. VisitsBeforeInterrupt - 1
           P == 0 .. PollCap
           L == Seq(Frame)
           R == [place : A, from : Loop, byte : Y, wait : W, visits : V, polls : P, log : L]
<1>1. R = Anywhere
      BY DEF Anywhere
<1>2. "run" \in A /\ w \in W /\ 0 \in Y
      OBVIOUS
<1> HIDE DEF A, Y, W, V, P, L
<1>3. r \in R
      BY <1>1
<1>4. [r EXCEPT !.place = "run", !.wait = w, !.byte = 0] \in R
      BY <1>2, <1>3
<1>5. QED
      BY <1>1, <1>4

LEMMA ReadFacts ==
  ASSUME NEW sc, NEW c \in Point, c.place \in Loop,
         Leaves(sc, c), c.visits + 1 # VisitsBeforeInterrupt
  PROVE  LET d == Onward(sc, c) IN
         /\ d \in Point
         /\ d.visits = c.visits + 1 /\ d.polls = Capped(c.polls + 1) /\ d.log = c.log
         /\ c.place = "texture" /\ c.byte # 0 =>
              d.place = "early" /\ d.byte = c.byte /\ d.wait = c.wait
         /\ ~ (c.place = "texture" /\ c.byte # 0) =>
              d.place = "run" /\ d.byte = 0 /\ d.wait = c.wait + 1
<1> DEFINE d == Onward(sc, c)
           r == ReadOnce(c)
<1>1. /\ c.visits \in 0 .. VisitsBeforeInterrupt - 1 /\ c.polls \in Nat
      /\ c.wait \in Nat \ {0} /\ c.byte \in 0 .. 2 /\ Sound(c)
      BY PointFacts
<1>2. c.visits + 1 \in 0 .. VisitsBeforeInterrupt - 1 /\ c.wait + 1 \in Nat \ {0}
      BY <1>1, Threshold
<1>3. Capped(c.polls + 1) \in 0 .. PollCap
      BY <1>1, CappedType
<1>4. r = [c EXCEPT !.visits = c.visits + 1, !.polls = Capped(c.polls + 1)]
      BY DEF ReadOnce
<1>5. r \in Anywhere
      BY <1>2, <1>3, <1>4 DEF Point, Anywhere
<1>6. CASE c.place = "texture" /\ c.byte # 0
  <2>1. d = [r EXCEPT !.place = "early"]
        BY <1>6 DEF Onward
  <2>2. /\ d.visits = c.visits + 1 /\ d.polls = Capped(c.polls + 1) /\ d.log = c.log
        /\ d.place = "early" /\ d.byte = c.byte /\ d.wait = c.wait
        BY <1>4, <2>1 DEF Point, Anywhere
  <2>3. d \in Anywhere
        BY <1>5, <2>1 DEF Anywhere, Loop
  <2>4. Sound(d)
        BY <1>1, <1>6, <2>2 DEF Sound
  <2>5. d \in Point
        BY <2>3, <2>4 DEF Point
  <2>6. QED
        BY <1>6, <2>2, <2>5
<1>7. CASE ~ (c.place = "texture" /\ c.byte # 0)
  <2>1. d = Over(r)
        BY <1>7 DEF Onward, Loop
  <2>2. r.wait = c.wait
        BY <1>4 DEF Point, Anywhere
  <2>3. d = [r EXCEPT !.place = "run", !.wait = c.wait + 1, !.byte = 0]
        BY <2>1, <2>2 DEF Over
  <2>4. /\ d.visits = c.visits + 1 /\ d.polls = Capped(c.polls + 1) /\ d.log = c.log
        /\ d.place = "run" /\ d.byte = 0 /\ d.wait = c.wait + 1
        BY <1>4, <2>3 DEF Point, Anywhere
  <2>5. d \in Anywhere
        BY <1>2, <1>5, <2>3, OverType
  <2>6. Sound(d)
        BY <2>4 DEF Sound
  <2>7. d \in Point
        BY <2>5, <2>6 DEF Point
  <2>8. QED
        BY <1>7, <2>4, <2>7
<1>8. QED
      BY <1>6, <1>7

\* a begins b.
Begins(a, b) == Len(a) <= Len(b) /\ \A k \in 1 .. Len(a) : b[k] = a[k]

\* A step of the course stays a point and only adds to the frames.
LEMMA OnwardFacts ==
  ASSUME NEW sc \in Seq(WaitKind), NEW c \in Point
  PROVE  /\ Onward(sc, c) \in Point
         /\ Begins(c.log, Onward(sc, c).log)
<1> DEFINE d == Onward(sc, c)
<1>1. c.log \in Seq(Frame) /\ c.wait \in Nat /\ Len(sc) \in Nat
      BY PointFacts
<1>2. CASE c.place = "run" /\ c.wait > Len(sc)
  <2>1. d = c
        BY <1>2 DEF Onward
  <2>2. QED
        BY <1>1, <2>1 DEF Begins
<1>3. CASE c.place = "run" /\ ~ (c.wait > Len(sc))
  <2>1. c.wait <= Len(sc)
        BY <1>1, <1>3
  <2>2. d \in Point /\ d.log = c.log
        BY <1>1, <1>3, <2>1, RunFacts
  <2>3. QED
        BY <1>1, <2>2 DEF Begins
<1>4. CASE c.place = "handler"
  <2>1. d \in Point /\ d.log = c.log
        BY <1>4, HandlerFacts
  <2>2. QED
        BY <1>1, <2>1 DEF Begins
<1>5. CASE c.place \in Loop /\ (~ Leaves(sc, c) \/ c.visits + 1 = VisitsBeforeInterrupt)
  <2>1. d \in Point /\ d.log = Append(c.log, FrameOf(c)) /\ FrameOf(c) \in Frame
        BY <1>5, BlankFacts, FrameOfType
  <2>2. QED
        BY <1>1, <2>1 DEF Begins
<1>6. CASE c.place \in Loop /\ Leaves(sc, c) /\ c.visits + 1 # VisitsBeforeInterrupt
  <2>1. d \in Point /\ d.log = c.log
        BY <1>6, ReadFacts
  <2>2. QED
        BY <1>1, <2>1 DEF Begins
<1>7. c.place \in Loop \cup {"run", "handler"}
      BY PointFacts
<1>8. QED
      BY <1>2, <1>3, <1>4, <1>5, <1>6, <1>7

\* g is the course of sc for n steps.
Follows(sc, g, n) == g[0] = Outset /\ \A k \in 1 .. n : g[k] = Onward(sc, g[k - 1])

LEMMA ReachedIs ==
  ASSUME NEW sc, NEW c
  PROVE  Reached(sc, c) <=>
           \E n \in Nat : \E g \in [0 .. n -> Point] : Follows(sc, g, n) /\ g[n] = c
BY DEF Reached, Follows

LEMMA ReachedOutset ==
  ASSUME NEW sc
  PROVE  Reached(sc, Outset)
<1> DEFINE g == [k \in 0 .. 0 |-> Outset]
<1>1. g \in [0 .. 0 -> Point] /\ g[0] = Outset
      BY OutsetPoint
<1>2. Follows(sc, g, 0)
      BY <1>1 DEF Follows
<1>3. QED
      BY <1>1, <1>2, ReachedIs

LEMMA ReachedOnward ==
  ASSUME NEW sc \in Seq(WaitKind), NEW c, Reached(sc, c)
  PROVE  c \in Point /\ Reached(sc, Onward(sc, c)) /\ Onward(sc, c) \in Point
<1>1. PICK n \in Nat : \E g \in [0 .. n -> Point] : Follows(sc, g, n) /\ g[n] = c
      BY ReachedIs
<1>2. PICK g \in [0 .. n -> Point] : Follows(sc, g, n) /\ g[n] = c
      BY <1>1
<1>3. c \in Point
      BY <1>2
<1>4. Onward(sc, c) \in Point
      BY <1>3, OnwardFacts
<1> DEFINE d == Onward(sc, c)
           N == n + 1
           h == [k \in 0 .. N |-> IF k = N THEN d ELSE g[k]]
<1>5. N \in Nat /\ N # 0 /\ N - 1 = n /\ N \in 0 .. N
      OBVIOUS
<1>6. \A k \in 0 .. N : k # N => k \in 0 .. n
      OBVIOUS
<1> HIDE DEF d, N
<1>7. h \in [0 .. N -> Point]
      BY <1>4, <1>6 DEF d
<1>8. h[0] = Outset
      BY <1>2, <1>5 DEF Follows
<1>9. ASSUME NEW k \in 1 .. N PROVE h[k] = Onward(sc, h[k - 1])
  <2>1. k \in 0 .. N /\ k - 1 \in 0 .. N /\ k - 1 # N
        BY <1>5
  <2>2. h[k - 1] = g[k - 1]
        BY <2>1
  <2>3. CASE k = N
        BY <1>2, <1>5, <2>1, <2>2, <2>3 DEF d
  <2>4. CASE k # N
    <3>1. k \in 1 .. n
          BY <1>6, <2>1, <2>4
    <3>2. QED
          BY <1>2, <2>1, <2>2, <2>4, <3>1 DEF Follows
  <2>5. QED
        BY <2>3, <2>4
<1>10. h[N] = d
       BY <1>5
<1> HIDE DEF h
<1>11. Follows(sc, h, N)
       BY <1>8, <1>9 DEF Follows
<1>12. Reached(sc, d)
       BY <1>5, <1>7, <1>10, <1>11, ReachedIs
<1>13. QED
       BY <1>3, <1>4, <1>12 DEF d

\* One course from another place of it: the log only grows.
LEMMA LaterBegins ==
  ASSUME NEW sc \in Seq(WaitKind), NEW n \in Nat, NEW m \in Nat, n <= m,
         NEW g \in [0 .. n -> Point], Follows(sc, g, n),
         NEW h \in [0 .. m -> Point], Follows(sc, h, m)
  PROVE  Begins(g[n].log, h[m].log)
<1> DEFINE G == {k \in Nat : h[k] = g[k]}
<1>1. 0 \in G
      BY DEF Follows
<1>2. ASSUME NEW k \in 1 .. n, k - 1 \in G PROVE k \in G
  <2>1. k \in Nat /\ h[k - 1] = g[k - 1] /\ k \in 1 .. m
        BY <1>2
  <2>2. g[k] = Onward(sc, g[k - 1]) /\ h[k] = Onward(sc, h[k - 1])
        BY <2>1 DEF Follows
  <2>3. QED
        BY <2>1, <2>2
<1> HIDE DEF G
<1>3. \A k \in 0 .. n : k \in G
      BY <1>1, <1>2, Inductive
<1>4. n \in G
      BY <1>3
<1>5. h[n] = g[n]
      BY <1>4 DEF G
<1> DEFINE a == g[n].log
           K == {k \in Nat : Begins(a, h[n + k].log)}
           w == m - n
<1>6. a \in Seq(Frame) /\ w \in Nat /\ n + w = m
  <2>1. g[n] \in Point
        OBVIOUS
  <2>2. QED
        BY <2>1, PointFacts
<1>7. 0 \in K
  <2>1. Begins(a, a)
        BY <1>6 DEF Begins
  <2>2. n + 0 = n
        OBVIOUS
  <2>3. QED
        BY <1>5, <2>1, <2>2
<1>8. ASSUME NEW k \in 1 .. w, k - 1 \in K PROVE k \in K
  <2>1. k \in Nat /\ n + k \in 1 .. m /\ (n + k) - 1 = n + (k - 1) /\ n + (k - 1) \in 0 .. m
        BY <1>6
  <2> DEFINE p == h[n + (k - 1)]
             q == h[n + k]
  <2>2. p \in Point
        BY <2>1
  <2>3. q = Onward(sc, p)
        BY <2>1 DEF Follows
  <2>4. Begins(a, p.log)
        BY <1>8
  <2> HIDE DEF p, q, a
  <2>5. q \in Point /\ Begins(p.log, q.log)
        BY <2>2, <2>3, OnwardFacts
  <2>6. a \in Seq(Frame) /\ p.log \in Seq(Frame) /\ q.log \in Seq(Frame)
        BY <1>6, <2>2, <2>5, PointFacts
  <2>7. Begins(a, q.log)
        BY <2>4, <2>5, <2>6 DEF Begins
  <2>8. QED
        BY <2>1, <2>7 DEF q
<1> HIDE DEF K, w
<1>9. \A k \in 0 .. w : k \in K
      BY <1>6, <1>7, <1>8, Inductive
<1>10. w \in K
       BY <1>6, <1>9
<1>11. QED
       BY <1>6, <1>10 DEF K

\* Two points of one course have had the same frames.
LEMMA OneCourse ==
  ASSUME NEW sc \in Seq(WaitKind), NEW c, NEW d, Reached(sc, c), Reached(sc, d)
  PROVE  Begins(c.log, d.log) \/ Begins(d.log, c.log)
<1>1. PICK n \in Nat : \E g \in [0 .. n -> Point] : Follows(sc, g, n) /\ g[n] = c
      BY ReachedIs
<1>2. PICK g \in [0 .. n -> Point] : Follows(sc, g, n) /\ g[n] = c
      BY <1>1
<1>3. PICK m \in Nat : \E h \in [0 .. m -> Point] : Follows(sc, h, m) /\ h[m] = d
      BY ReachedIs
<1>4. PICK h \in [0 .. m -> Point] : Follows(sc, h, m) /\ h[m] = d
      BY <1>3
<1>5. CASE n <= m
      BY <1>2, <1>4, <1>5, LaterBegins
<1>6. CASE m <= n
      BY <1>2, <1>4, <1>6, LaterBegins
<1>7. QED
      BY <1>5, <1>6

-------------------------------------------------------------------------------
(* What the steps do to each part of a machine.                            *)

LEMMA MachineFacts ==
  ASSUME NEW m \in Machine
  PROVE  /\ m.place \in Place /\ m.from \in Loop /\ m.byte \in 0 .. 255
         /\ m.wait \in Nat \ {0} /\ m.polls \in 0 .. PollCap
         /\ m.visits["oracle"] \in 0 .. VisitsBeforeInterrupt - 1
         /\ m.visits["native"] \in 0 .. VisitsBeforeInterrupt - 1
         /\ "oracle" \in Stepper /\ "native" \in Stepper /\ "native" # "oracle"
BY DEF Machine, Stepper

LEMMA CappedSum ==
  ASSUME NEW a \in Nat, NEW b \in Nat
  PROVE  Capped(Capped(a) + b) = Capped(a + b)
BY Threshold DEF Capped

LEMMA CappedSmall ==
  ASSUME NEW a \in 0 .. PollCap
  PROVE  Capped(a) = a
BY Threshold DEF Capped

LEMMA PolledIs ==
  ASSUME NEW m \in Machine, NEW n \in Nat
  PROVE  LET p == Polled(m, n) IN
         /\ p \in Machine
         /\ p.place = m.place /\ p.from = m.from /\ p.byte = m.byte /\ p.seen = m.seen
         /\ p.request = m.request /\ p.entered = m.entered /\ p.wait = m.wait
         /\ p.visits = m.visits /\ p.injected = m.injected
         /\ p.polls = Capped(m.polls + n)
<1>1. Polled(m, n) = [m EXCEPT !.polls = Capped(m.polls + n)]
      BY DEF Polled, Capped
<1>2. Polled(m, n) \in Machine
      BY PolledFacts
<1>3. QED
      BY <1>1, <1>2, SMTT(40) DEF Machine

LEMMA InjectIs ==
  ASSUME NEW m \in Machine, m.place \in Loop, NEW w \in Stepper
  PROVE  LET i == Inject(m, w) IN
         /\ i \in Machine
         /\ i.place = "handler" /\ i.from = m.place /\ i.byte = m.byte /\ i.seen = m.seen
         /\ i.request = TRUE /\ i.wait = m.wait /\ i.polls = m.polls
         /\ i.visits[w] = 0 /\ i.injected[w] = TRUE
<1>1. Inject(m, w) \in Machine
      BY InjectFacts
<1>2. QED
      BY <1>1 DEF Inject, Machine

LEMMA PollToInterruptIs ==
  ASSUME NEW m \in Machine, m.place \in Loop, NEW n \in Nat
  PROVE  LET i == PollToInterrupt(m, n) IN
         /\ i \in Machine
         /\ i.place = "handler" /\ i.from = m.place /\ i.byte = m.byte /\ i.seen = m.seen
         /\ i.request = TRUE /\ i.wait = m.wait /\ i.polls = Capped(m.polls + n)
         /\ i.visits["native"] = 0 /\ i.injected["native"] = TRUE
<1> DEFINE p == Polled(m, n)
<1>1. /\ p \in Machine /\ p.place = m.place /\ p.byte = m.byte /\ p.seen = m.seen
      /\ p.wait = m.wait /\ p.polls = Capped(m.polls + n)
      BY PolledIs
<1>2. "native" \in Stepper
      BY DEF Stepper
<1>3. PollToInterrupt(m, n) = Inject(p, "native")
      BY DEF PollToInterrupt
<1> HIDE DEF p
<1> DEFINE i == Inject(p, "native")
<1>4. p \in Machine /\ p.place \in Loop
      BY <1>1
<1>5. /\ i \in Machine
      /\ i.place = "handler" /\ i.from = p.place /\ i.byte = p.byte /\ i.seen = p.seen
      /\ i.request = TRUE /\ i.wait = p.wait /\ i.polls = p.polls
      /\ i.visits["native"] = 0 /\ i.injected["native"] = TRUE
      BY <1>2, <1>4, InjectIs
<1> HIDE DEF i
<1>6. PollToInterrupt(m, n) = i
      BY <1>3 DEF i
<1>7. QED
      BY <1>1, <1>5, <1>6

\* A visit that does not reach the threshold.
LEMMA VisitedIs ==
  ASSUME NEW m \in Machine, m.place \in Loop, NEW w \in Stepper,
         m.visits[w] + 1 < VisitsBeforeInterrupt
  PROVE  LET o == Observe(m, w) IN
         /\ o \in Machine
         /\ o.place = m.place /\ o.from = m.from /\ o.byte = m.byte /\ o.seen = m.seen
         /\ o.request = m.request /\ o.entered = m.entered /\ o.wait = m.wait
         /\ o.polls = m.polls /\ o.injected = m.injected
         /\ o.visits[w] = m.visits[w] + 1
<1>1. Observe(m, w) = [m EXCEPT !.visits[w] = @ + 1]
      BY DEF Observe
<1>2. Observe(m, w) \in Machine
      BY ObserveFacts
<1>3. QED
      BY <1>1, <1>2 DEF Machine

\* A visit that does.
LEMMA ThresholdIs ==
  ASSUME NEW m \in Machine, m.place \in Loop, NEW w \in Stepper,
         ~ (m.visits[w] + 1 < VisitsBeforeInterrupt)
  PROVE  Observe(m, w) = Inject(m, w)
BY DEF Observe

LEMMA AtWaitIs ==
  ASSUME NEW m \in Machine
  PROVE  LET a == AtWait(m) IN
         /\ a \in Machine
         /\ a.from = m.from /\ a.byte = m.byte
         /\ a.request = m.request /\ a.entered = m.entered /\ a.wait = m.wait
         /\ a.visits = m.visits /\ a.injected = m.injected /\ a.polls = m.polls
         /\ a.seen = m.seen \/ a.seen = m.byte
         /\ a.place = IF script[m.wait] = "main" THEN "entry"
                      ELSE FirstLoop(script[m.wait])
<1>1. AtWait(m) \in Machine
      BY AtWaitFacts
<1>2. CASE script[m.wait] = "main"
  <2>1. AtWait(m) = [m EXCEPT !.place = "entry"]
        BY <1>2 DEF AtWait
  <2>2. QED
        BY <1>1, <1>2, <2>1 DEF Machine
<1>3. CASE script[m.wait] = "early"
  <2>1. AtWait(m) = [m EXCEPT !.place = "early"]
        BY <1>3 DEF AtWait
  <2>2. FirstLoop(script[m.wait]) = "early"
        BY <1>3 DEF FirstLoop
  <2>3. QED
        BY <1>1, <1>3, <2>1, <2>2 DEF Machine
<1>4. CASE script[m.wait] # "main" /\ script[m.wait] # "early"
  <2>1. AtWait(m) = [m EXCEPT !.place = "texture", !.seen = m.byte]
        BY <1>4 DEF AtWait
  <2>2. FirstLoop(script[m.wait]) = "texture"
        BY <1>4 DEF FirstLoop
  <2>3. QED
        BY <1>1, <1>4, <2>1, <2>2 DEF Machine
<1>5. QED
      BY <1>2, <1>3, <1>4

LEMMA PlacedIs ==
  ASSUME NEW m \in Machine, NEW q \in Place
  PROVE  LET i == [m EXCEPT !.place = q] IN
         /\ i \in Machine
         /\ i.place = q /\ i.from = m.from /\ i.byte = m.byte /\ i.seen = m.seen
         /\ i.request = m.request /\ i.entered = m.entered /\ i.wait = m.wait
         /\ i.visits = m.visits /\ i.injected = m.injected /\ i.polls = m.polls
BY DEF Machine

LEMMA ZeroedIs ==
  ASSUME NEW m \in Machine
  PROVE  LET i == [m EXCEPT !.byte = 0] IN
         /\ i \in Machine
         /\ i.byte = 0 /\ i.seen = m.seen /\ i.wait = m.wait
         /\ i.entered = m.entered /\ i.visits = m.visits
         /\ i.injected = m.injected /\ i.polls = m.polls
<1>1. 0 \in 0 .. 255
      OBVIOUS
<1>2. [m EXCEPT !.byte = 0] \in Machine
      BY DEF Machine
<1>3. QED
      BY <1>2 DEF Machine

LEMMA PollEntryIs ==
  ASSUME NEW m \in Machine
  PROVE  LET i == [m EXCEPT !.place = "poll", !.seen = m.byte] IN
         /\ i \in Machine
         /\ i.place = "poll" /\ i.seen = m.byte /\ i.byte = m.byte
         /\ i.wait = m.wait /\ i.entered = m.entered /\ i.visits = m.visits
         /\ i.injected = m.injected /\ i.polls = m.polls
<1>1. "poll" \in Place /\ m.byte \in 0 .. 255
      BY DEF Machine, Place, Loop
<1>2. [m EXCEPT !.place = "poll", !.seen = m.byte] \in Machine
      BY <1>1 DEF Machine
<1>3. QED
      BY <1>1 , <1>2 DEF Machine

LEMMA WaitOverIs ==
  ASSUME NEW m \in Machine
  PROVE  LET o == WaitOver(m) IN
         /\ o \in Machine
         /\ o.place = "run" /\ o.byte = m.byte /\ o.seen = m.seen
         /\ o.wait = m.wait + 1 /\ o.polls = m.polls
         /\ o.visits = m.visits /\ o.injected = m.injected /\ o.entered = m.entered
<1>1. WaitOver(m) \in Machine
      BY WaitOverFacts
<1>2. QED
      BY <1>1 DEF WaitOver, Machine

LEMMA HandledIs ==
  ASSUME NEW m \in Machine, m.byte \in 0 .. 1
  PROVE  LET h == Handled(m) IN
         /\ h \in Machine
         /\ h.place = "return" /\ h.from = m.from /\ h.byte = m.byte + 1
         /\ h.seen = m.seen /\ h.wait = m.wait /\ h.polls = 0
         /\ h.visits = m.visits /\ h.injected = m.injected /\ h.entered = m.entered
<1>1. Handled(m) \in Machine
      BY HandledFacts
<1>2. (m.byte + 1) % 256 = m.byte + 1
      BY <1>1
<1>3. QED
      BY <1>1, <1>2 DEF Handled, Machine

LEMMA EarlyExitIs ==
  ASSUME NEW m \in Machine
  PROVE  LET e == EarlyExit(m) IN
         /\ e \in Machine
         /\ e.place = "run" /\ e.byte = 0 /\ e.seen = m.seen
         /\ e.wait = m.wait + 1 /\ e.polls = Capped(m.polls + 1)
         /\ e.visits = m.visits /\ e.injected = m.injected /\ e.entered = m.entered
<1> DEFINE p == Polled(m, 1)
           z == [p EXCEPT !.byte = 0]
<1>1. /\ p \in Machine /\ p.seen = m.seen /\ p.wait = m.wait
      /\ p.polls = Capped(m.polls + 1) /\ p.visits = m.visits
      /\ p.injected = m.injected /\ p.entered = m.entered
      BY PolledIs
<1>2. EarlyExit(m) = WaitOver(z)
      BY DEF EarlyExit
<1> HIDE DEF p
<1>3. /\ z \in Machine /\ z.byte = 0 /\ z.seen = p.seen /\ z.wait = p.wait
      /\ z.polls = p.polls /\ z.visits = p.visits
      /\ z.injected = p.injected /\ z.entered = p.entered
      BY <1>1 DEF Machine
<1> HIDE DEF z
<1>4. QED
      BY <1>1, <1>2, <1>3, WaitOverIs

\* A loop whose byte is of a point repeats while it is not 2.
LEMMA EarlyIs ==
  ASSUME NEW m, m.byte \in 0 .. 2
  PROVE  EarlyRepeats(m) <=> m.byte # 2
BY DEF EarlyRepeats

-------------------------------------------------------------------------------
(* The oracle's turns.                                                     *)

\* In a loop the oracle has read as often as it has visited it since the point.
LEMMA OracleInLoop ==
  ASSUME NEW sc, NEW m \in Machine, NEW c \in Point, OracleAt(sc, m, c), m.place \in Loop
  PROVE  /\ m.seen = 0 /\ c.place = m.place /\ m.wait = c.wait /\ m.byte = c.byte
         /\ c.visits <= m.visits["oracle"]
         /\ m.polls = Capped(c.polls + (m.visits["oracle"] - c.visits))
         /\ m.visits["oracle"] # c.visits => ~ Leaves(sc, c)
BY DEF OracleAt, Loop

\* At the threshold the oracle comes to the frame of the point.
LEMMA OracleBlank ==
  ASSUME NEW sc, NEW m \in Machine, NEW c \in Point, OracleAt(sc, m, c),
         m.place \in Loop, ~ (m.visits["oracle"] + 1 < VisitsBeforeInterrupt)
  PROVE  LET o == Inject(m, "oracle")
             d == Onward(sc, c) IN
         /\ o \in Machine /\ d \in Point /\ OracleAt(sc, o, d)
         /\ d.log = Append(c.log, FrameOf(c)) /\ FrameOf(c) \in Frame
         /\ o.place = "handler" /\ o.request = TRUE /\ o.wait = FrameOf(c).wait
         /\ o.from = FrameOf(c).from /\ o.byte = FrameOf(c).byte
         /\ o.polls = FrameOf(c).reads
<1> DEFINE o == Inject(m, "oracle")
           d == Onward(sc, c)
           v == m.visits["oracle"]
<1>1. /\ m.seen = 0 /\ c.place = m.place /\ m.wait = c.wait /\ m.byte = c.byte
      /\ c.visits <= v /\ m.polls = Capped(c.polls + (v - c.visits))
      /\ v # c.visits => ~ Leaves(sc, c)
      BY OracleInLoop
<1>2. /\ v \in 0 .. VisitsBeforeInterrupt - 1 /\ "oracle" \in Stepper
      /\ c.visits \in 0 .. VisitsBeforeInterrupt - 1
      BY MachineFacts, PointFacts
<1>3. v = VisitsBeforeInterrupt - 1
      BY <1>2, Threshold
<1>4. ~ Leaves(sc, c) \/ c.visits + 1 = VisitsBeforeInterrupt
      BY <1>1, <1>2, <1>3, Threshold
<1>5. c.place \in Loop
      BY <1>1
<1>6. /\ d \in Point /\ d.place = "handler" /\ d.from = c.place /\ d.wait = c.wait
      /\ d.byte = c.byte /\ d.visits = 0 /\ d.log = Append(c.log, FrameOf(c))
      BY <1>4, <1>5, BlankFacts
<1>7. /\ FrameOf(c) \in Frame
      /\ FrameOf(c).wait = c.wait /\ FrameOf(c).from = c.place
      /\ FrameOf(c).byte = c.byte
      /\ FrameOf(c).reads = Capped(c.polls + ((VisitsBeforeInterrupt - 1) - c.visits))
      BY <1>5, FrameOfType
<1>8. /\ o \in Machine
      /\ o.place = "handler" /\ o.from = m.place /\ o.byte = m.byte /\ o.seen = m.seen
      /\ o.request = TRUE /\ o.wait = m.wait /\ o.polls = m.polls
      /\ o.visits["oracle"] = 0
      BY <1>2, InjectIs
<1> HIDE DEF o, d, v
<1>9. OracleAt(sc, o, d)
      BY <1>1, <1>6, <1>8 DEF OracleAt
<1>10. o.polls = FrameOf(c).reads
      BY <1>1, <1>3, <1>7, <1>8
<1>11. QED
      BY <1>1, <1>6, <1>7, <1>8, <1>9, <1>10 DEF o, d

\* One read of a loop, by its instructions.
LEMMA OracleRead ==
  ASSUME NEW m \in Machine, NEW c \in Point, OracleAt(script, m, c),
         m.place \in Loop, m.visits["oracle"] + 1 < VisitsBeforeInterrupt
  PROVE  LET i == Instructions(Observe(m, "oracle")) IN
         /\ i \in Machine
         /\ \E d \in {c, Onward(script, c)} :
              d \in Point /\ d.log = c.log /\ OracleAt(script, i, d)
<1> DEFINE o == Observe(m, "oracle")
           v == m.visits["oracle"]
           p == Polled(o, 1)
           i == Instructions(o)
           d == Onward(script, c)
<1>1. /\ m.seen = 0 /\ c.place = m.place /\ m.wait = c.wait /\ m.byte = c.byte
      /\ c.visits <= v /\ m.polls = Capped(c.polls + (v - c.visits))
      /\ v # c.visits => ~ Leaves(script, c)
      BY OracleInLoop
<1>2. /\ v \in 0 .. VisitsBeforeInterrupt - 1 /\ "oracle" \in Stepper
      /\ c.visits \in 0 .. VisitsBeforeInterrupt - 1 /\ c.polls \in 0 .. PollCap
      /\ c.byte \in 0 .. 2 /\ m.polls \in Nat
      BY MachineFacts, PointFacts
<1>3. /\ o \in Machine
      /\ o.place = m.place /\ o.byte = m.byte /\ o.seen = m.seen
      /\ o.wait = m.wait /\ o.polls = m.polls /\ o.visits["oracle"] = v + 1
      BY <1>2, VisitedIs
<1> HIDE DEF o
<1>4. /\ p \in Machine /\ p.place = o.place /\ p.byte = o.byte /\ p.seen = o.seen
      /\ p.wait = o.wait /\ p.visits = o.visits /\ p.polls = Capped(o.polls + 1)
      BY <1>3, PolledIs
<1>5. p.polls = Capped(c.polls + ((v + 1) - c.visits))
  <2>1. c.polls + (v - c.visits) \in Nat /\ 1 \in Nat
        BY <1>1, <1>2, Threshold
  <2>2. Capped(m.polls + 1) = Capped((c.polls + (v - c.visits)) + 1)
        BY <1>1, <2>1, CappedSum
  <2>3. (c.polls + (v - c.visits)) + 1 = c.polls + ((v + 1) - c.visits)
        BY <1>2, Threshold
  <2>4. QED
        BY <1>3, <1>4, <2>2, <2>3
<1> HIDE DEF p, v
\* The loop repeats.
<1>6. ASSUME i = p, ~ Leaves(script, c)
      PROVE  i \in Machine /\ OracleAt(script, i, c)
  <2>1. /\ i.place \in Loop /\ i.place = c.place /\ i.wait = c.wait /\ i.byte = c.byte
        /\ i.seen = 0 /\ i.visits["oracle"] = v + 1
        BY <1>1, <1>3, <1>4, <1>6
  <2>2. c.visits <= v + 1
        BY <1>1, <1>2, Threshold
  <2>3. QED
        BY <1>4, <1>5, <1>6, <2>1, <2>2 DEF OracleAt
\* The loop is left: nothing has been read since the point.
<1>7. ASSUME Leaves(script, c)
      PROVE  /\ c.visits = v /\ c.visits + 1 # VisitsBeforeInterrupt
             /\ p.polls = Capped(c.polls + 1) /\ p.visits["oracle"] = c.visits + 1
  <2>1. c.visits = v
        BY <1>1, <1>7
  <2>2. (v + 1) - c.visits = 1
        BY <1>2, <2>1, Threshold
  <2>3. c.visits + 1 # VisitsBeforeInterrupt
        BY <1>2, <2>1, Threshold DEF v
  <2>4. QED
        BY <1>3, <1>4, <1>5, <2>1, <2>2, <2>3
<1>8. CASE m.place = "poll" /\ m.byte = 0
  <2>1. i = p
        BY <1>1, <1>3, <1>8 DEF Instructions, p
  <2>2. ~ Leaves(script, c)
        BY <1>1, <1>8 DEF Leaves
  <2>3. QED
        BY <1>6, <2>1, <2>2 DEF o
<1>9. CASE m.place = "poll" /\ m.byte # 0
  <2>1. i = [p EXCEPT !.place = "changed"]
        BY <1>1, <1>3, <1>9 DEF Instructions, p
  <2>2. Leaves(script, c) /\ c.place \in Loop /\ c.place # "texture"
        BY <1>1, <1>9 DEF Leaves, Loop
  <2>3. /\ c.visits + 1 # VisitsBeforeInterrupt
        /\ p.polls = Capped(c.polls + 1) /\ p.visits["oracle"] = c.visits + 1
        BY <1>7, <2>2
  <2>4. /\ d \in Point /\ d.visits = c.visits + 1 /\ d.polls = Capped(c.polls + 1)
        /\ d.log = c.log /\ d.place = "run" /\ d.byte = 0 /\ d.wait = c.wait + 1
        BY <2>2, <2>3, ReadFacts
  <2> HIDE DEF d, i
  <2>5. /\ i \in Machine /\ i.place = "changed" /\ i.seen = 0 /\ i.wait = c.wait
        /\ i.polls = p.polls /\ i.visits["oracle"] = p.visits["oracle"]
        BY <1>1, <1>3, <1>4, <2>1 DEF Machine, Place
  <2>6. OracleAt(script, i, d)
        BY <2>3, <2>4, <2>5 DEF OracleAt
  <2>7. QED
        BY <2>4, <2>5, <2>6 DEF d, i, o
<1>10. CASE m.place = "early" /\ m.byte # 2
  <2>1. i = p
        BY <1>1, <1>2, <1>3, <1>10, EarlyIs DEF Instructions, p
  <2>2. ~ Leaves(script, c)
        BY <1>1, <1>10 DEF Leaves
  <2>3. QED
        BY <1>6, <2>1, <2>2 DEF o
<1>11. CASE m.place = "early" /\ m.byte = 2
  <2>1. i = EarlyExit(o)
        BY <1>1, <1>2, <1>3, <1>11, EarlyIs DEF Instructions
  <2>2. Leaves(script, c) /\ c.place \in Loop /\ c.place # "texture"
        BY <1>1, <1>11 DEF Leaves, Loop
  <2>3. /\ c.visits + 1 # VisitsBeforeInterrupt
        /\ p.polls = Capped(c.polls + 1) /\ p.visits["oracle"] = c.visits + 1
        BY <1>7, <2>2
  <2>4. /\ d \in Point /\ d.visits = c.visits + 1 /\ d.polls = Capped(c.polls + 1)
        /\ d.log = c.log /\ d.place = "run" /\ d.byte = 0 /\ d.wait = c.wait + 1
        BY <2>2, <2>3, ReadFacts
  <2> HIDE DEF d, i
  <2>5. /\ i \in Machine /\ i.place = "run" /\ i.byte = 0 /\ i.seen = 0
        /\ i.wait = c.wait + 1 /\ i.polls = p.polls
        /\ i.visits["oracle"] = p.visits["oracle"]
        BY <1>1, <1>3, <1>4, <2>1, EarlyExitIs
  <2>6. OracleAt(script, i, d)
        BY <2>3, <2>4, <2>5 DEF OracleAt
  <2>7. QED
        BY <2>4, <2>5, <2>6 DEF d, i, o
<1>12. CASE m.place = "texture" /\ m.byte # 0
  <2>1. i = [p EXCEPT !.place = "early"]
        BY <1>1, <1>3, <1>12 DEF Instructions, p
  <2>2. Leaves(script, c) /\ c.place \in Loop /\ c.place = "texture" /\ c.byte # 0
        BY <1>1, <1>12 DEF Leaves, Loop
  <2>3. /\ c.visits + 1 # VisitsBeforeInterrupt
        /\ p.polls = Capped(c.polls + 1) /\ p.visits["oracle"] = c.visits + 1
        BY <1>7, <2>2
  <2>4. /\ d \in Point /\ d.visits = c.visits + 1 /\ d.polls = Capped(c.polls + 1)
        /\ d.log = c.log /\ d.place = "early" /\ d.byte = c.byte /\ d.wait = c.wait
        BY <2>2, <2>3, ReadFacts
  <2> HIDE DEF d, i
  <2>5. /\ i \in Machine /\ i.place = "early" /\ i.byte = c.byte /\ i.seen = 0
        /\ i.wait = c.wait /\ i.polls = p.polls
        /\ i.visits["oracle"] = p.visits["oracle"]
        BY <1>1, <1>3, <1>4, <2>1 DEF Machine, Place, Loop
  <2>6. d.visits <= i.visits["oracle"] /\ i.visits["oracle"] - d.visits = 0 /\ d.polls \in 0 .. PollCap
        BY <1>2, <2>3, <2>4, <2>5, PointFacts, Threshold, SMTT(40)
  <2>7. i.polls = Capped(d.polls + (i.visits["oracle"] - d.visits))
        BY <2>3, <2>4, <2>5, <2>6, CappedSmall
  <2>8. OracleAt(script, i, d)
        BY <2>3, <2>4, <2>5, <2>6, <2>7 DEF OracleAt, Loop
  <2>9. QED
        BY <2>4, <2>5, <2>8 DEF d, i, o
<1>13. CASE m.place = "texture" /\ m.byte = 0 /\ script[m.wait] # "released"
  <2>1. i = p
        BY <1>1, <1>3, <1>13 DEF Instructions, p
  <2>2. ~ Leaves(script, c)
        BY <1>1, <1>13 DEF Leaves
  <2>3. QED
        BY <1>6, <2>1, <2>2 DEF o
<1>14. CASE m.place = "texture" /\ m.byte = 0 /\ script[m.wait] = "released"
  <2>1. i = WaitOver(p)
        BY <1>1, <1>3, <1>14 DEF Instructions, p
  <2>2. Leaves(script, c) /\ c.place \in Loop /\ c.byte = 0
        BY <1>1, <1>14 DEF Leaves, Loop
  <2>3. /\ c.visits + 1 # VisitsBeforeInterrupt
        /\ p.polls = Capped(c.polls + 1) /\ p.visits["oracle"] = c.visits + 1
        BY <1>7, <2>2
  <2>4. /\ d \in Point /\ d.visits = c.visits + 1 /\ d.polls = Capped(c.polls + 1)
        /\ d.log = c.log /\ d.place = "run" /\ d.byte = 0 /\ d.wait = c.wait + 1
        BY <2>2, <2>3, ReadFacts
  <2> HIDE DEF d, i
  <2>5. /\ i \in Machine /\ i.place = "run" /\ i.byte = 0 /\ i.seen = 0
        /\ i.wait = c.wait + 1 /\ i.polls = p.polls
        /\ i.visits["oracle"] = p.visits["oracle"]
        BY <1>1, <1>3, <1>4, <1>14, <2>1, WaitOverIs
  <2>6. OracleAt(script, i, d)
        BY <2>3, <2>4, <2>5 DEF OracleAt
  <2>7. QED
        BY <2>4, <2>5, <2>6 DEF d, i, o
<1>15. QED
       BY <1>8, <1>9, <1>10, <1>11, <1>12, <1>13, <1>14 DEF Loop

\* The oracle outside the loops.
LEMMA OracleElsewhere ==
  ASSUME NEW m \in Machine, NEW c \in Point, OracleAt(script, m, c),
         m.place \notin Loop, script \in Seq(WaitKind), m.wait <= Len(script)
  PROVE  LET i == Instructions(m) IN
         /\ i \in Machine
         /\ \E d \in {c, Onward(script, c)} :
              d \in Point /\ d.log = c.log /\ OracleAt(script, i, d)
<1> DEFINE i == Instructions(m)
           d == Onward(script, c)
           v == m.visits["oracle"]
<1>1. /\ m.seen = 0 /\ Len(script) \in Nat /\ m.wait \in Nat \ {0} /\ m.byte \in 0 .. 255
      /\ m.from \in Loop
      BY MachineFacts DEF OracleAt
<1>2. CASE m.place = "run"
  <2>1. /\ c.place = "run" /\ m.wait = c.wait /\ m.byte = c.byte
        /\ v = c.visits /\ m.polls = c.polls
        BY <1>2 DEF OracleAt, Loop
  <2>2. /\ d \in Point /\ d.place = FirstLoop(script[c.wait]) /\ d.place \in Loop
        /\ d.wait = c.wait /\ d.byte = 0 /\ c.byte = 0
        /\ d.visits = c.visits /\ d.polls = c.polls /\ d.log = c.log
        BY <1>1, <2>1, RunFacts
  <2>3. i = AtWait(m)
        BY <1>2 DEF Instructions
  <2>4. /\ i \in Machine /\ i.byte = 0 /\ i.seen = 0 /\ i.wait = m.wait
        /\ i.visits = m.visits /\ i.polls = m.polls
        /\ i.place = IF script[m.wait] = "main" THEN "entry" ELSE FirstLoop(script[m.wait])
        BY <1>1, <2>1, <2>2, <2>3, AtWaitIs
  <2> HIDE DEF i, d
  <2>5. i.place = IF script[m.wait] = "main" THEN "entry" ELSE d.place
        BY <2>1, <2>2, <2>4
  <2>6. script[m.wait] = "main" => d.place = "poll"
        BY <2>1, <2>2 DEF FirstLoop
  <2>7. d.visits \in Nat /\ d.polls \in 0 .. PollCap /\ d.visits - d.visits = 0
        BY <2>2, PointFacts
  <2>8. d.polls = Capped(d.polls + 0)
        BY <2>7, CappedSmall
  <2>9. CASE script[m.wait] = "main"
        BY <2>1, <2>2, <2>4, <2>5, <2>6, <2>9 DEF OracleAt, d, i
  <2>10. CASE script[m.wait] # "main"
    <3>1. i.place = d.place /\ i.wait = d.wait /\ i.byte = d.byte /\ i.polls = d.polls
          BY <2>1, <2>2, <2>4, <2>5, <2>10
    <3>2. i.visits["oracle"] = d.visits /\ d.visits <= d.visits
          BY <2>1, <2>2, <2>4, <2>7
    <3>3. OracleAt(script, i, d)
          BY <2>2, <2>4, <2>7, <2>8, <3>1, <3>2 DEF OracleAt
    <3>4. QED
          BY <2>2, <2>4, <3>3 DEF d, i
  <2>11. QED
        BY <2>9, <2>10
<1>3. CASE m.place = "entry"
  <2>1. /\ c.place = "poll" /\ m.wait = c.wait /\ m.byte = c.byte /\ m.byte = 0
        /\ v = c.visits /\ m.polls = c.polls
        BY <1>3 DEF OracleAt, Loop
  <2>2. i = [m EXCEPT !.place = "poll", !.seen = m.byte]
        BY <1>3 DEF Instructions
  <2>3. /\ i \in Machine /\ i.place = "poll" /\ i.seen = 0 /\ i.byte = m.byte
        /\ i.wait = m.wait /\ i.polls = m.polls /\ i.visits["oracle"] = v
        BY <1>1, <2>1, <2>2, PollEntryIs, ZenonT(60)
  <2> HIDE DEF i, v
  <2>4. c.visits \in Nat /\ c.polls \in 0 .. PollCap /\ c.visits - c.visits = 0
        BY PointFacts
  <2>5. c.polls = Capped(c.polls + 0)
        BY <2>4, CappedSmall
  <2>6. OracleAt(script, i, c)
    <3>1. i.place \in Loop /\ c.place = i.place /\ i.wait = c.wait /\ i.byte = c.byte
          BY <2>1, <2>3 DEF Loop
    <3>2. c.visits <= i.visits["oracle"] /\ i.visits["oracle"] = c.visits
          BY <2>1, <2>3, <2>4
    <3>3. i.polls = Capped(c.polls + (i.visits["oracle"] - c.visits))
          BY <2>1, <2>3, <2>4, <2>5, <3>2
    <3>4. QED
          BY <2>3, <3>1, <3>2, <3>3 DEF OracleAt
  <2>7. QED
        BY <2>3, <2>6 DEF i
<1>4. CASE m.place = "changed"
  <2>1. /\ c.place = "run" /\ c.wait = m.wait + 1 /\ c.byte = 0
        /\ v = c.visits /\ m.polls = c.polls
        BY <1>4 DEF OracleAt, Loop
  <2> DEFINE z == [m EXCEPT !.byte = 0]
  <2>2. i = WaitOver(z)
        BY <1>4 DEF Instructions
  <2>3. /\ z \in Machine /\ z.byte = 0 /\ z.seen = m.seen /\ z.wait = m.wait
        /\ z.polls = m.polls /\ z.visits = m.visits
        BY ZeroedIs
  <2> HIDE DEF z
  <2>4. /\ i \in Machine /\ i.place = "run" /\ i.byte = 0 /\ i.seen = 0
        /\ i.wait = m.wait + 1 /\ i.polls = m.polls /\ i.visits = m.visits
        BY <1>1, <2>2, <2>3, WaitOverIs
  <2> HIDE DEF i
  <2>5. OracleAt(script, i, c)
        BY <2>1, <2>4 DEF OracleAt
  <2>6. QED
        BY <2>4, <2>5 DEF i
<1>5. CASE m.place = "handler"
  <2>1. /\ c.place = "handler" /\ m.wait = c.wait /\ m.byte = c.byte
        /\ v = 0 /\ c.from = m.from
        BY <1>5 DEF OracleAt, Loop
  <2>2. /\ d \in Point /\ d.place = c.from /\ d.wait = c.wait
        /\ d.byte = c.byte + 1 /\ c.byte \in 0 .. 1
        /\ d.visits = 0 /\ d.polls = 0 /\ d.log = c.log
        BY <2>1, HandlerFacts
  <2>3. i = Handled(m)
        BY <1>5 DEF Instructions
  <2>4. /\ i \in Machine /\ i.place = "return" /\ i.from = m.from /\ i.byte = m.byte + 1
        /\ i.seen = m.seen /\ i.wait = m.wait /\ i.polls = 0 /\ i.visits = m.visits
        BY <2>1, <2>2, <2>3, HandledIs
  <2> HIDE DEF i, d
  <2>5. OracleAt(script, i, d)
        BY <1>1, <2>1, <2>2, <2>4 DEF OracleAt
  <2>6. QED
        BY <2>2, <2>4, <2>5 DEF i, d
<1>6. CASE m.place = "return"
  <2>1. /\ c.place = m.from /\ m.wait = c.wait /\ m.byte = c.byte
        /\ v = c.visits /\ m.polls = c.polls /\ v = 0 /\ m.polls = 0
        BY <1>6 DEF OracleAt, Loop
  <2>2. i = [m EXCEPT !.place = m.from]
        BY <1>6 DEF Instructions
  <2>3. /\ i \in Machine /\ i.place = m.from /\ i.seen = 0 /\ i.byte = m.byte
        /\ i.wait = m.wait /\ i.polls = m.polls /\ i.visits["oracle"] = v
    <3>1. m.from \in Place
          BY <1>1 DEF Place
    <3>2. QED
          BY <1>1, <2>2, <3>1, PlacedIs
  <2> HIDE DEF i, v
  <2>4. 0 <= 0 /\ 0 - 0 = 0 /\ Capped(0 + 0) = 0
        BY Threshold DEF Capped
  <2>5. OracleAt(script, i, c)
        BY <1>1, <2>1, <2>3, <2>4 DEF OracleAt
  <2>6. QED
        BY <2>3, <2>5 DEF i
<1>7. m.place \in Place
      BY MachineFacts
<1>8. QED
      BY <1>2, <1>3, <1>4, <1>5, <1>6, <1>7 DEF Place

-------------------------------------------------------------------------------
(* The native blocks.                                                      *)

\* The native machine m has come to the point c.
Tracks(m, c) ==
  /\ m \in Machine /\ c \in Point /\ Reached(script, c)
  /\ NativeAt(script, m, c) /\ Seeded(script, family, m, c)

\* From the point c the machine has come to i without a frame, or with one.
Goes(i, c) == \E d : d.log = c.log /\ Tracks(i, d)

Ticks(i, c) ==
  \E d : \E f \in Frame :
    /\ Tracks(i, d) /\ d.log = Append(c.log, f)
    /\ IsFrame(i, f)
    /\ f.reads = i.polls + Missed(script, family, Len(c.log) + 1, i, f)

\* What a machine that has come to a point is.
LEMMA TracksFacts ==
  ASSUME NEW m, NEW c, Tracks(m, c)
  PROVE  /\ m \in Machine /\ m.seen = 0 /\ m.from \in Loop /\ m.byte \in 0 .. 255
         /\ m.wait \in Nat \ {0} /\ m.polls \in 0 .. PollCap
         /\ m.visits["native"] \in 0 .. VisitsBeforeInterrupt - 1
         /\ "native" \in Stepper
         /\ c \in Point /\ c.visits \in 0 .. VisitsBeforeInterrupt - 1
         /\ c.polls \in 0 .. PollCap /\ c.log \in Seq(Frame) /\ c.byte \in 0 .. 2
BY MachineFacts, PointFacts DEF Tracks, NativeAt

\* Out of the first stretch, only a machine without a seed has no frame yet.
LEMMA SeedLater ==
  ASSUME NEW m, NEW c, Tracks(m, c), m.place \notin {"run", "entry"}
  PROVE  /\ c.log = <<>> => ~ family
         /\ \A i, d : d.log = c.log /\ i.injected = m.injected
                        => Seeded(script, family, i, d)
BY DEF Tracks, Seeded

LEMMA MissedNone ==
  ASSUME NEW i \in Machine, NEW f, NEW log \in Seq(Frame), f.reads = i.polls,
         log = <<>> => ~ family \/ script[i.wait] # "main"
  PROVE  f.reads = i.polls + Missed(script, family, Len(log) + 1, i, f)
<1>1. i.polls \in Nat
      BY MachineFacts, Threshold
<1>2. Missed(script, family, Len(log) + 1, i, f) = 0
  <2>1. CASE script[i.wait] = "early" /\ i.byte = 0
        BY <1>1, <2>1 DEF Missed
  <2>2. CASE ~ (script[i.wait] = "early" /\ i.byte = 0)
    <3>1. Len(log) + 1 = 1 => log = <<>>
          OBVIOUS
    <3>2. ~ (Len(log) + 1 = 1 /\ family /\ script[i.wait] = "main")
          BY <3>1
    <3>3. QED
          BY <2>2, <3>2 DEF Missed
  <2>3. QED
        BY <2>1, <2>2
<1>3. QED
      BY <1>1, <1>2

\* A machine in the handler after a blank at c.
LEMMA BlankTicks ==
  ASSUME script \in Seq(WaitKind), NEW c, Reached(script, c), c \in Point, c.place \in Loop,
         ~ Leaves(script, c) \/ c.visits + 1 = VisitsBeforeInterrupt,
         NEW i \in Machine, i.place = "handler", i.from = c.place, i.byte = c.byte,
         i.seen = 0, i.request = TRUE, i.wait = c.wait, i.visits["native"] = 0,
         i.injected["native"] = TRUE,
         FrameOf(c).reads
           = i.polls + Missed(script, family, Len(c.log) + 1, i, FrameOf(c))
  PROVE  Ticks(i, c)
<1> DEFINE d == Onward(script, c)
           f == FrameOf(c)
<1>1. /\ d \in Point /\ d.place = "handler" /\ d.from = c.place /\ d.wait = c.wait
      /\ d.byte = c.byte /\ d.visits = 0 /\ d.log = Append(c.log, f)
      BY BlankFacts
<1>2. /\ f \in Frame /\ f.wait = c.wait /\ f.from = c.place /\ f.byte = c.byte
      BY FrameOfType
<1>3. Reached(script, d)
      BY ReachedOnward
<1> HIDE DEF d, f
<1>4. NativeAt(script, i, d)
      BY <1>1 DEF NativeAt
<1>5. d.log # <<>>
  <2>1. c.log \in Seq(Frame)
        BY PointFacts
  <2>2. QED
        BY <1>1, <1>2, <2>1
<1>6. Seeded(script, family, i, d)
      BY <1>5 DEF Seeded
<1>7. Tracks(i, d)
      BY <1>1, <1>3, <1>4, <1>6 DEF Tracks
<1>8. IsFrame(i, f)
      BY <1>2 DEF IsFrame
<1>9. QED
      BY <1>1, <1>2, <1>7, <1>8 DEF Ticks, f

LEMMA Ticked ==
  ASSUME NEW i, NEW c, NEW d, Ticks(i, d), d.log = c.log
  PROVE  Ticks(i, c)
BY DEF Ticks

\* The next wait, not of the texture loop: the seed still holds.
LEMMA GoesToWait ==
  ASSUME script \in Seq(WaitKind), NEW m, NEW c, Tracks(m, c), m.place = "run",
         m.wait <= Len(script), script[m.wait] \in {"main", "early"}
  PROVE  m.byte = 0 /\ Goes(AtWait(m), c)
<1> DEFINE d == Onward(script, c)
           a == AtWait(m)
<1>1. /\ c.place = "run" /\ m.wait = c.wait /\ m.byte = c.byte
      /\ m.visits["native"] = c.visits /\ m.polls = c.polls /\ m.seen = 0
      BY DEF Tracks, NativeAt
<1>2. c \in Point /\ Reached(script, c) /\ m \in Machine /\ Len(script) \in Nat
      BY DEF Tracks
<1>3. /\ d \in Point /\ d.place = FirstLoop(script[c.wait])
      /\ d.wait = c.wait /\ d.byte = 0 /\ c.byte = 0
      /\ d.visits = c.visits /\ d.polls = c.polls /\ d.log = c.log
      BY <1>1, <1>2, RunFacts
<1>4. Reached(script, d)
      BY <1>2, ReachedOnward
<1>5. /\ a \in Machine /\ a.byte = 0 /\ a.seen = 0 /\ a.wait = m.wait
      /\ a.visits = m.visits /\ a.polls = m.polls /\ a.injected = m.injected
      /\ a.entered = m.entered
      /\ a.place = IF script[m.wait] = "main" THEN "entry" ELSE FirstLoop(script[m.wait])
      BY <1>1, <1>2, <1>3, AtWaitIs
<1> HIDE DEF a, d
<1>6. CASE script[m.wait] = "main"
  <2>1. a.place = "entry" /\ d.place = "poll"
        BY <1>1, <1>3, <1>5, <1>6 DEF FirstLoop
  <2>2. NativeAt(script, a, d)
        BY <1>1, <1>3, <1>5, <2>1 DEF NativeAt
  <2>3. Seeded(script, family, a, d)
        BY <1>3, <1>5, <2>1 DEF Tracks, Seeded
  <2>4. Tracks(a, d)
        BY <1>3, <1>4, <1>5, <2>2, <2>3 DEF Tracks
  <2>5. QED
        BY <1>1, <1>3, <2>4 DEF Goes, a
<1>7. CASE script[m.wait] = "early"
  <2>1. a.place = "early" /\ d.place = "early"
        BY <1>1, <1>3, <1>5, <1>7 DEF FirstLoop
  <2>2. NativeAt(script, a, d)
        BY <1>1, <1>3, <1>5, <1>7, <2>1 DEF NativeAt
  <2>3. Seeded(script, family, a, d)
    <3>1. c.log = <<>> => ~ family
          BY <1>7 DEF Tracks, Seeded
    <3>2. c.log # <<>> => m.injected["native"]
          BY DEF Tracks, Seeded
    <3>3. QED
          BY <1>3, <1>5, <3>1, <3>2 DEF Seeded
  <2>4. Tracks(a, d)
        BY <1>3, <1>4, <1>5, <2>2, <2>3 DEF Tracks
  <2>5. QED
        BY <1>1, <1>3, <2>4 DEF Goes, a
<1>8. QED
      BY <1>6, <1>7

\* A machine that arrives at a loop counts the visit, and may be interrupted
\* at once.
LEMMA Arrives ==
  ASSUME script \in Seq(WaitKind), NEW b \in Machine, NEW d \in Point, Reached(script, d),
         b.place \in {"early", "texture"}, d.place = b.place,
         b.wait = d.wait, b.byte = d.byte, b.seen = 0, b.polls = d.polls,
         b.visits["native"] = d.visits, b.place = "early" => b.byte # 0,
         d.log = <<>> => ~ family,
         d.log # <<>> => b.injected["native"]
  PROVE  LET o == Observe(b, "native") IN
         \/ o.place # "handler" /\ Goes(o, d)
         \/ o.place = "handler" /\ Ticks(o, d)
<1> DEFINE o == Observe(b, "native")
           v == b.visits["native"]
<1>1. /\ "native" \in Stepper /\ v \in 0 .. VisitsBeforeInterrupt - 1 /\ b.place \in Loop
      /\ d.polls \in 0 .. PollCap /\ d.log \in Seq(Frame)
      BY MachineFacts, PointFacts DEF Loop
<1>2. CASE v + 1 < VisitsBeforeInterrupt
  <2>1. /\ o \in Machine /\ o.place = b.place /\ o.byte = b.byte /\ o.seen = b.seen
        /\ o.wait = b.wait /\ o.polls = b.polls /\ o.injected = b.injected
        /\ o.visits["native"] = v + 1
        BY <1>1, <1>2, VisitedIs
  <2> HIDE DEF o
  <2>2. NativeAt(script, o, d)
        BY <2>1 DEF NativeAt
  <2>3. Seeded(script, family, o, d)
        BY <2>1 DEF Seeded
  <2>4. Tracks(o, d)
        BY <2>1, <2>2, <2>3 DEF Tracks
  <2>5. o.place # "handler"
        BY <2>1
  <2>6. QED
        BY <2>4, <2>5 DEF Goes, o
<1>3. CASE ~ (v + 1 < VisitsBeforeInterrupt)
  <2> DEFINE j == Inject(b, "native")
  <2>1. o = j
        BY <1>1, <1>3, ThresholdIs
  <2>2. /\ j \in Machine
        /\ j.place = "handler" /\ j.from = b.place /\ j.byte = b.byte /\ j.seen = b.seen
        /\ j.request = TRUE /\ j.wait = b.wait /\ j.polls = b.polls
        /\ j.visits["native"] = 0 /\ j.injected["native"] = TRUE
        BY <1>1, InjectIs
  <2> HIDE DEF o, j
  <2>3. /\ o \in Machine
        /\ o.place = "handler" /\ o.from = b.place /\ o.byte = b.byte /\ o.seen = b.seen
        /\ o.request = TRUE /\ o.wait = b.wait /\ o.polls = b.polls
        /\ o.visits["native"] = 0 /\ o.injected["native"] = TRUE
        BY <2>1, <2>2
  <2>4. d.visits + 1 = VisitsBeforeInterrupt
        BY <1>1, <1>3, Threshold
  <2>5. d.polls + ((VisitsBeforeInterrupt - 1) - d.visits) = d.polls
        BY <1>1, <2>4, Threshold
  <2>6. FrameOf(d).reads = o.polls
    <3>1. FrameOf(d).reads = Capped(d.polls)
          BY <1>1, <2>5, FrameOfType
    <3>2. QED
          BY <1>1, <2>3, <3>1, CappedSmall
  <2>7. FrameOf(d).reads
          = o.polls + Missed(script, family, Len(d.log) + 1, o, FrameOf(d))
        BY <1>1, <2>3, <2>6, MissedNone
  <2>8. Ticks(o, d)
        BY <1>1, <2>3, <2>4, <2>7, BlankTicks
  <2>9. QED
        BY <2>3, <2>8 DEF o
<1>4. QED
      BY <1>2, <1>3

\* The arrival at 0x4afe4 is one visit, and a frame at the threshold.
LEMMA TextureEntryTracks ==
  ASSUME script \in Seq(WaitKind), NEW m, NEW c, Tracks(m, c), m.place = "run",
         m.wait <= Len(script), script[m.wait] \in {"texture", "released"}
  PROVE  LET o == Observe(AtWait(m), "native") IN
         \/ o.place # "handler" /\ Goes(o, c)
         \/ o.place = "handler" /\ Ticks(o, c)
<1> DEFINE d == Onward(script, c)
           a == AtWait(m)
<1>1. /\ c.place = "run" /\ m.wait = c.wait /\ m.byte = c.byte
      /\ m.visits["native"] = c.visits /\ m.polls = c.polls /\ m.seen = 0
      BY DEF Tracks, NativeAt
<1>2. c \in Point /\ Reached(script, c) /\ m \in Machine /\ Len(script) \in Nat
      BY DEF Tracks
<1>3. /\ d \in Point /\ d.place = FirstLoop(script[c.wait])
      /\ d.wait = c.wait /\ d.byte = 0 /\ c.byte = 0
      /\ d.visits = c.visits /\ d.polls = c.polls /\ d.log = c.log
      BY <1>1, <1>2, RunFacts
<1>4. Reached(script, d)
      BY <1>2, ReachedOnward
<1>5. /\ a \in Machine /\ a.byte = 0 /\ a.seen = 0 /\ a.wait = m.wait
      /\ a.visits = m.visits /\ a.polls = m.polls /\ a.injected = m.injected
      /\ a.place = IF script[m.wait] = "main" THEN "entry" ELSE FirstLoop(script[m.wait])
      BY <1>1, <1>2, <1>3, AtWaitIs
<1>6. a.place = "texture" /\ d.place = "texture"
      BY <1>1, <1>3, <1>5 DEF FirstLoop
<1>7. c.log = <<>> => ~ family
      BY DEF Tracks, Seeded
<1>8. c.log # <<>> => m.injected["native"]
      BY DEF Tracks, Seeded
<1> HIDE DEF a, d
<1> DEFINE o == Observe(a, "native")
<1>9. \/ o.place # "handler" /\ Goes(o, d)
      \/ o.place = "handler" /\ Ticks(o, d)
  <2>1. /\ a.wait = d.wait /\ a.byte = d.byte /\ a.polls = d.polls
        /\ a.visits["native"] = d.visits
        /\ d.log = <<>> => ~ family
        /\ d.log # <<>> => a.injected["native"]
        BY <1>1, <1>3, <1>5, <1>7, <1>8
  <2>2. QED
        BY <1>3, <1>4, <1>5, <1>6, <2>1, Arrives
<1> HIDE DEF o
<1>10. Goes(o, d) => Goes(o, c)
       BY <1>3 DEF Goes
<1>11. Ticks(o, d) => Ticks(o, c)
       BY <1>3, Ticked
<1>12. QED
       BY <1>9, <1>10, <1>11 DEF o, a

\* A poll to the threshold of a loop that is not left.
LEMMA PollTicks ==
  ASSUME script \in Seq(WaitKind), NEW c, Reached(script, c), c \in Point, c.place \in Loop,
         ~ Leaves(script, c),
         NEW b \in Machine, b.place = c.place, b.byte = c.byte, b.seen = 0, b.wait = c.wait,
         NEW n \in Nat,
         FrameOf(c).reads
           = PollToInterrupt(b, n).polls
             + Missed(script, family, Len(c.log) + 1, PollToInterrupt(b, n), FrameOf(c))
  PROVE  /\ PollToInterrupt(b, n).place = "handler"
         /\ Ticks(PollToInterrupt(b, n), c)
<1> DEFINE i == PollToInterrupt(b, n)
<1>1. b.place \in Loop
      OBVIOUS
<1>2. /\ i \in Machine
      /\ i.place = "handler" /\ i.from = b.place /\ i.byte = b.byte /\ i.seen = b.seen
      /\ i.request = TRUE /\ i.wait = b.wait
      /\ i.visits["native"] = 0 /\ i.injected["native"] = TRUE
      BY <1>1, PollToInterruptIs
<1>3. FrameOf(c).reads
        = i.polls + Missed(script, family, Len(c.log) + 1, i, FrameOf(c))
      OBVIOUS
<1> HIDE DEF i
<1>4. /\ i.from = c.place /\ i.byte = c.byte /\ i.seen = 0 /\ i.wait = c.wait
      /\ ~ Leaves(script, c) \/ c.visits + 1 = VisitsBeforeInterrupt
      BY <1>2
<1>5. Ticks(i, c)
      BY <1>2, <1>3, <1>4, BlankTicks
<1>6. QED
      BY <1>2, <1>5 DEF i

\* The block that polls the main loop makes one frame.
LEMMA MainPollTracks ==
  ASSUME script \in Seq(WaitKind), NEW m, NEW c, Tracks(m, c), m.place = "entry"
  PROVE  LET i == PollToInterrupt([m EXCEPT !.place = "poll", !.seen = m.byte],
                    VisitsBeforeInterrupt - PhaseSeed(m) - 1) IN
         i.place = "handler" /\ Ticks(i, c)
<1> DEFINE b == [m EXCEPT !.place = "poll", !.seen = m.byte]
           n == VisitsBeforeInterrupt - PhaseSeed(m) - 1
           i == PollToInterrupt(b, n)
           v == m.visits["native"]
<1>1. /\ c.place = "poll" /\ m.wait = c.wait /\ m.byte = c.byte /\ m.byte = 0
      /\ v = c.visits /\ m.polls = c.polls
      BY DEF Tracks, NativeAt, Loop
<1>2. /\ m \in Machine /\ c \in Point /\ Reached(script, c)
      /\ v \in 0 .. VisitsBeforeInterrupt - 1
      /\ m.polls \in 0 .. PollCap /\ c.log \in Seq(Frame)
      BY TracksFacts DEF Tracks
<1>3. /\ b \in Machine /\ b.place = "poll" /\ b.seen = 0 /\ b.byte = 0
      /\ b.wait = m.wait /\ b.polls = m.polls
      BY <1>1, <1>2, PollEntryIs
<1>4. PhaseSeed(m) \in {v, 1} /\ n \in Nat /\ n = (VisitsBeforeInterrupt - 1) - PhaseSeed(m)
  <2>1. PhaseSeed(m) = v \/ PhaseSeed(m) = 1
        BY DEF PhaseSeed
  <2>2. PhaseSeed(m) \in 0 .. VisitsBeforeInterrupt - 1
        BY <1>2, <2>1, Threshold
  <2>3. QED
        BY <2>1, <2>2, Threshold
<1>5. c.place \in Loop /\ ~ Leaves(script, c)
      BY <1>1 DEF Loop, Leaves
<1> HIDE DEF b, n
<1>6. i \in Machine /\ i.wait = c.wait /\ i.polls = Capped(c.polls + n) /\ i.byte = 0
  <2>1. b.place \in Loop
        BY <1>3 DEF Loop
  <2>2. i \in Machine /\ i.wait = b.wait /\ i.polls = Capped(b.polls + n) /\ i.byte = b.byte
        BY <1>3, <1>4, <2>1, PollToInterruptIs
  <2>3. QED
        BY <1>1, <1>3, <2>2
<1>7. FrameOf(c).reads = Capped(c.polls + ((VisitsBeforeInterrupt - 1) - v))
      BY <1>1, <1>2, <1>5, FrameOfType
<1>8. FrameOf(c).reads = i.polls + Missed(script, family, Len(c.log) + 1, i, FrameOf(c))
  <2> HIDE DEF i, v
  <2>1. CASE c.log = <<>> /\ family
    <3>1. /\ m.entered /\ ~ m.injected["native"] /\ v = 0 /\ m.polls = 0 /\ m.wait = 1
          /\ script[1] = "main"
          BY <2>1 DEF Tracks, Seeded, v
    <3>2. PhaseSeed(m) = 1
          BY <2>1, <3>1 DEF PhaseSeed, v
    <3>3. /\ Missed(script, family, Len(c.log) + 1, i, FrameOf(c)) = 1
      <4>1. Len(c.log) + 1 = 1
            BY <2>1
      <4>2. script[i.wait] = "main"
            BY <1>1, <1>6, <3>1
      <4>3. QED
            BY <2>1, <4>1, <4>2 DEF Missed
    <3>4. n = VisitsBeforeInterrupt - 2 /\ c.polls = 0
          BY <1>1, <1>4, <3>1, <3>2, Threshold
    <3>5. i.polls = VisitsBeforeInterrupt - 2
          BY <1>6, <3>4, Threshold DEF Capped, PollCap
    <3>6. FrameOf(c).reads = VisitsBeforeInterrupt - 1
          BY <1>7, <3>1, <3>4, Threshold DEF Capped, PollCap
    <3>7. QED
          BY <3>3, <3>5, <3>6, Threshold
  <2>2. CASE ~ (c.log = <<>> /\ family)
    <3>1. PhaseSeed(m) = v
      <4>1. c.log # <<>> => m.injected["native"]
            BY DEF Tracks, Seeded
      <4>2. QED
            BY <2>2, <4>1 DEF PhaseSeed, v
    <3>2. FrameOf(c).reads = i.polls
          BY <1>4, <1>6, <1>7, <3>1
    <3>3. QED
          BY <1>2, <1>6, <2>2, <3>2, MissedNone
  <2>3. QED
        BY <2>1, <2>2
<1>9. b.place = c.place /\ b.byte = c.byte /\ b.seen = 0 /\ b.wait = c.wait
      BY <1>1, <1>3
<1>10. i.place = "handler" /\ Ticks(i, c)
       BY <1>2, <1>3, <1>4, <1>5, <1>8, <1>9, PollTicks
<1>11. QED
       BY <1>10 DEF b, n

\* The blank that is due at once is one frame, whose reads are not made.
LEMMA PendingTracks ==
  ASSUME script \in Seq(WaitKind), NEW m, NEW c, Tracks(m, c), m.place = "early",
         script[m.wait] = "early", m.byte = 0
  PROVE  LET i == PollToInterrupt(m, 0) IN i.place = "handler" /\ Ticks(i, c)
<1> DEFINE i == PollToInterrupt(m, 0)
<1>1. /\ c.place = "early" /\ m.wait = c.wait /\ m.byte = c.byte /\ m.seen = 0
      BY DEF Tracks, NativeAt, Loop
<1>2. /\ m \in Machine /\ c \in Point /\ Reached(script, c)
      /\ c.place \in Loop /\ ~ Leaves(script, c) /\ m.place \in Loop
      BY <1>1 DEF Tracks, Loop, Leaves
<1>3. i \in Machine /\ i.wait = m.wait /\ i.byte = m.byte
  <2>1. 0 \in Nat /\ m \in Machine /\ m.place \in Loop
        BY <1>2
  <2>2. QED
        BY <2>1, PollToInterruptIs
<1>4. i.polls \in 0 .. PollCap /\ FrameOf(c).reads \in 0 .. PollCap
  <2>1. FrameOf(c) \in Frame
        BY <1>2, FrameOfType
  <2>2. QED
        BY <1>3, <2>1, MachineFacts DEF Frame
<1>5. FrameOf(c).reads = i.polls + Missed(script, family, Len(c.log) + 1, i, FrameOf(c))
  <2> HIDE DEF i
  <2>1. Missed(script, family, Len(c.log) + 1, i, FrameOf(c)) = FrameOf(c).reads - i.polls
        BY <1>3 DEF Missed
  <2>2. QED
        BY <1>4, <2>1, Threshold
<1>6. 0 \in Nat /\ m.place = c.place
      BY <1>1
<1>7. QED
      BY <1>1, <1>2, <1>5, <1>6, PollTicks

\* In a loop that was arrived at and is not left, the reads still to come are
\* those of the visits still to come.
LEMMA ArrivedTicks ==
  ASSUME script \in Seq(WaitKind), NEW m, NEW c, Tracks(m, c),
         m.place \in Loop, c.place = m.place, m.wait = c.wait, m.byte = c.byte,
         m.visits["native"] = c.visits + 1, m.polls = c.polls, ~ Leaves(script, c)
  PROVE  LET i == PollToInterrupt(m, VisitsBeforeInterrupt - m.visits["native"]) IN
         i.place = "handler" /\ Ticks(i, c)
<1> DEFINE n == VisitsBeforeInterrupt - m.visits["native"]
           i == PollToInterrupt(m, n)
<1>1. /\ m \in Machine /\ m.seen = 0 /\ c \in Point /\ Reached(script, c)
      /\ m.visits["native"] \in 0 .. VisitsBeforeInterrupt - 1
      /\ c.visits \in 0 .. VisitsBeforeInterrupt - 1 /\ c.log \in Seq(Frame)
      BY TracksFacts DEF Tracks
<1>2. n \in Nat /\ n = (VisitsBeforeInterrupt - 1) - c.visits
      BY <1>1, Threshold
<1> HIDE DEF n
<1>3. i \in Machine /\ i.polls = Capped(m.polls + n)
      BY <1>1, <1>2, PollToInterruptIs
<1>4. FrameOf(c).reads = i.polls
      BY <1>1, <1>2, <1>3, FrameOfType
<1>5. c.log = <<>> => ~ family
      BY SeedLater DEF Loop
<1>6. FrameOf(c).reads = i.polls + Missed(script, family, Len(c.log) + 1, i, FrameOf(c))
  <2> HIDE DEF i
  <2>1. QED
        BY <1>1, <1>3, <1>4, <1>5, MissedNone
<1>7. i.place = "handler" /\ Ticks(i, c)
      BY <1>1, <1>2, <1>6, PollTicks
<1>8. QED
      BY <1>7 DEF n

\* A loop that is left by the read: the point goes on with the machine.
LEMMA LeftGoes ==
  ASSUME script \in Seq(WaitKind), NEW m, NEW c, Tracks(m, c), m.place \notin {"run", "entry"},
         c.place \in Loop, Leaves(script, c), c.visits + 1 # VisitsBeforeInterrupt,
         ~ (c.place = "texture" /\ c.byte # 0),
         NEW i \in Machine, i.seen = 0, i.injected = m.injected,
         i.visits["native"] = c.visits + 1, i.polls = Capped(c.polls + 1),
         \/ i.place = "run" /\ i.wait = c.wait + 1 /\ i.byte = 0
         \/ i.place = "changed" /\ i.wait = c.wait /\ i.byte = 1
  PROVE  i.place # "handler" /\ Goes(i, c)
<1> DEFINE d == Onward(script, c)
<1>1. c \in Point /\ Reached(script, c)
      BY DEF Tracks
<1>2. /\ d \in Point /\ d.visits = c.visits + 1 /\ d.polls = Capped(c.polls + 1)
      /\ d.log = c.log /\ d.place = "run" /\ d.byte = 0 /\ d.wait = c.wait + 1
      BY <1>1, ReadFacts
<1>3. Reached(script, d)
      BY <1>1, ReachedOnward
<1> HIDE DEF d
<1>4. NativeAt(script, i, d)
      BY <1>2 DEF NativeAt
<1>5. Seeded(script, family, i, d)
      BY <1>2, SeedLater
<1>6. Tracks(i, d)
      BY <1>2, <1>3, <1>4, <1>5 DEF Tracks
<1>7. QED
      BY <1>2, <1>6 DEF Goes

\* A block at 0xf7c makes a frame or leaves the wait.
LEMMA EarlyPollTracks ==
  ASSUME script \in Seq(WaitKind), NEW m, NEW c, Tracks(m, c), m.place = "early",
         script[m.wait] # "early" \/ m.byte # 0
  PROVE  LET i == IF EarlyRepeats(m)
                  THEN PollToInterrupt(m, VisitsBeforeInterrupt - m.visits["native"])
                  ELSE EarlyExit(m) IN
         \/ i.place # "handler" /\ Goes(i, c)
         \/ i.place = "handler" /\ Ticks(i, c)
<1>1. /\ c.place = "early" /\ m.wait = c.wait /\ m.byte = c.byte /\ m.seen = 0
      /\ m.visits["native"] = c.visits + 1 /\ m.polls = c.polls
      BY DEF Tracks, NativeAt, Loop
<1>2. /\ m \in Machine /\ c \in Point /\ c.byte \in 0 .. 2
      /\ m.visits["native"] \in 0 .. VisitsBeforeInterrupt - 1
      /\ c.visits \in 0 .. VisitsBeforeInterrupt - 1
      BY TracksFacts
<1>3. EarlyRepeats(m) <=> m.byte # 2
      BY <1>1, <1>2, EarlyIs
<1>4. CASE m.byte # 2
  <2>1. m.place \in Loop /\ c.place = m.place /\ ~ Leaves(script, c)
        BY <1>1, <1>4 DEF Loop, Leaves
  <2>2. QED
        BY <1>1, <1>3, <1>4, <2>1, ArrivedTicks
<1>5. CASE m.byte = 2
  <2> DEFINE i == EarlyExit(m)
  <2>1. /\ i \in Machine /\ i.place = "run" /\ i.byte = 0 /\ i.seen = 0
        /\ i.wait = c.wait + 1 /\ i.polls = Capped(c.polls + 1)
        /\ i.visits["native"] = c.visits + 1 /\ i.injected = m.injected
        BY <1>1, <1>2, EarlyExitIs
  <2>2. /\ c.place \in Loop /\ Leaves(script, c) /\ c.visits + 1 # VisitsBeforeInterrupt
        /\ ~ (c.place = "texture" /\ c.byte # 0) /\ m.place \notin {"run", "entry"}
        BY <1>1, <1>2, <1>5, Threshold DEF Loop, Leaves
  <2> HIDE DEF i
  <2>3. i.place # "handler" /\ Goes(i, c)
        BY <2>1, <2>2, LeftGoes
  <2>4. QED
        BY <1>3, <1>5, <2>3 DEF i
<1>6. QED
      BY <1>4, <1>5

\* A block at 0x4afe4 makes a frame, leaves the wait or goes to 0xf7c.
LEMMA TexturePollTracks ==
  ASSUME script \in Seq(WaitKind), NEW m, NEW c, Tracks(m, c), m.place = "texture"
  PROVE  LET i == IF m.byte # m.seen
                  THEN Observe([Polled(m, 1) EXCEPT !.place = "early"], "native")
                  ELSE IF script[m.wait] = "released"
                  THEN WaitOver(Polled(m, 1))
                  ELSE PollToInterrupt(m, VisitsBeforeInterrupt - m.visits["native"]) IN
         \/ i.place # "handler" /\ Goes(i, c)
         \/ i.place = "handler" /\ Ticks(i, c)
<1> DEFINE p == Polled(m, 1)
<1>1. /\ c.place = "texture" /\ m.wait = c.wait /\ m.byte = c.byte /\ m.seen = 0
      /\ m.visits["native"] = c.visits + 1 /\ m.polls = c.polls
      BY DEF Tracks, NativeAt, Loop
<1>2. /\ m \in Machine /\ c \in Point /\ Reached(script, c) /\ c.byte \in 0 .. 2
      /\ m.visits["native"] \in 0 .. VisitsBeforeInterrupt - 1
      /\ c.visits \in 0 .. VisitsBeforeInterrupt - 1 /\ Sound(c)
      BY TracksFacts, PointFacts DEF Tracks
<1>3. c.visits + 1 # VisitsBeforeInterrupt
      BY <1>1, <1>2, Threshold
<1>4. /\ p \in Machine /\ p.byte = m.byte /\ p.seen = 0 /\ p.wait = m.wait
      /\ p.visits = m.visits /\ p.injected = m.injected /\ p.polls = Capped(m.polls + 1)
      BY <1>1, <1>2, PolledIs
<1> HIDE DEF p
<1>5. CASE m.byte # 0
  <2> DEFINE b == [p EXCEPT !.place = "early"]
             d == Onward(script, c)
             o == Observe(b, "native")
  <2>1. c.place \in Loop /\ Leaves(script, c) /\ c.byte # 0
        BY <1>1, <1>5 DEF Loop, Leaves
  <2>2. /\ d \in Point /\ d.visits = c.visits + 1 /\ d.polls = Capped(c.polls + 1)
        /\ d.log = c.log /\ d.place = "early" /\ d.byte = c.byte /\ d.wait = c.wait
        BY <1>1, <1>2, <1>3, <2>1, ReadFacts
  <2>3. Reached(script, d)
        BY <1>2, ReachedOnward
  <2>4. /\ b \in Machine /\ b.place = "early" /\ b.byte = p.byte /\ b.seen = p.seen
        /\ b.wait = p.wait /\ b.visits = p.visits /\ b.injected = p.injected
        /\ b.polls = p.polls
    <3>1. "early" \in Place
          BY DEF Place, Loop
    <3>2. QED
          BY <1>4, <3>1, PlacedIs
  <2>5. /\ d.log = <<>> => ~ family
        /\ d.log # <<>> => b.injected["native"]
    <3>1. c.log = <<>> => ~ family
          BY SeedLater
    <3>2. c.log # <<>> => m.injected["native"]
          BY DEF Tracks, Seeded
    <3>3. QED
          BY <1>4, <2>2, <2>4, <3>1, <3>2
  <2> HIDE DEF b, d
  <2>6. \/ o.place # "handler" /\ Goes(o, d)
        \/ o.place = "handler" /\ Ticks(o, d)
    <3>1. /\ b.place \in {"early", "texture"} /\ d.place = b.place
          /\ b.wait = d.wait /\ b.byte = d.byte /\ b.seen = 0 /\ b.polls = d.polls
          /\ b.visits["native"] = d.visits /\ (b.place = "early" => b.byte # 0)
          BY <1>1, <1>4, <1>5, <2>2, <2>4
    <3>2. QED
          BY <2>2, <2>3, <2>4, <2>5, <3>1, Arrives
  <2> HIDE DEF o
  <2>7. Goes(o, d) => Goes(o, c)
        BY <2>2 DEF Goes
  <2>8. Ticks(o, d) => Ticks(o, c)
        BY <2>2, Ticked
  <2>9. QED
        BY <1>1, <1>5, <2>6, <2>7, <2>8 DEF o, b, p
<1>6. CASE m.byte = 0 /\ script[m.wait] = "released"
  <2> DEFINE i == WaitOver(p)
  <2>1. /\ i \in Machine /\ i.place = "run" /\ i.byte = 0 /\ i.seen = 0
        /\ i.wait = c.wait + 1 /\ i.polls = Capped(c.polls + 1)
        /\ i.visits["native"] = c.visits + 1 /\ i.injected = m.injected
        BY <1>1, <1>4, <1>6, WaitOverIs
  <2>2. /\ c.place \in Loop /\ Leaves(script, c)
        /\ ~ (c.place = "texture" /\ c.byte # 0) /\ m.place \notin {"run", "entry"}
        BY <1>1, <1>6 DEF Loop, Leaves
  <2> HIDE DEF i
  <2>3. i.place # "handler" /\ Goes(i, c)
        BY <1>3, <2>1, <2>2, LeftGoes
  <2>4. QED
        BY <1>1, <1>6, <2>3 DEF i, p
<1>7. CASE m.byte = 0 /\ script[m.wait] # "released"
  <2>1. m.place \in Loop /\ c.place = m.place /\ ~ Leaves(script, c)
        BY <1>1, <1>7 DEF Loop, Leaves
  <2>2. QED
        BY <1>1, <1>7, <2>1, ArrivedTicks
<1>8. QED
      BY <1>5, <1>6, <1>7

\* The handler increments the byte of the point.
LEMMA HandlerTracks ==
  ASSUME script \in Seq(WaitKind), NEW m, NEW c, Tracks(m, c), m.place = "handler"
  PROVE  Goes(Handled(m), c)
<1> DEFINE d == Onward(script, c)
           h == Handled(m)
<1>1. /\ c.place = "handler" /\ m.wait = c.wait /\ m.byte = c.byte /\ m.seen = 0
      /\ m.visits["native"] = 0 /\ c.from = m.from
      BY DEF Tracks, NativeAt, Loop
<1>2. m \in Machine /\ c \in Point /\ Reached(script, c)
      BY DEF Tracks
<1>3. /\ d \in Point /\ d.place = c.from /\ d.wait = c.wait
      /\ d.byte = c.byte + 1 /\ c.byte \in 0 .. 1
      /\ d.visits = 0 /\ d.polls = 0 /\ d.log = c.log
      BY <1>1, <1>2, HandlerFacts
<1>4. Reached(script, d)
      BY <1>2, ReachedOnward
<1>5. /\ h \in Machine /\ h.place = "return" /\ h.from = m.from /\ h.byte = m.byte + 1
      /\ h.seen = 0 /\ h.wait = m.wait /\ h.polls = 0
      /\ h.visits = m.visits /\ h.injected = m.injected
      BY <1>1, <1>2, <1>3, HandledIs
<1> HIDE DEF d, h
<1>6. h.byte # 0
      BY <1>1, <1>3, <1>5
<1>7. NativeAt(script, h, d)
      BY <1>1, <1>3, <1>5, <1>6 DEF NativeAt
<1>8. Seeded(script, family, h, d)
      BY <1>3, <1>5, SeedLater
<1>9. Tracks(h, d)
      BY <1>3, <1>4, <1>5, <1>7, <1>8 DEF Tracks
<1>10. QED
       BY <1>3, <1>9 DEF Goes, h

\* Back in the loop, the visit is counted; the main loop is left by the read.
LEMMA ReturnTracks ==
  ASSUME script \in Seq(WaitKind), NEW m, NEW c, Tracks(m, c), m.place = "return"
  PROVE  LET o == Observe([m EXCEPT !.place = m.from], "native") IN
         /\ o.place = m.from
         /\ o.place \in {"early", "texture"} => Goes(o, c)
         /\ o.place = "poll" =>
              LET i == [Polled(o, 1) EXCEPT !.place = "changed"] IN
              m.byte # m.seen /\ i.place # "handler" /\ Goes(i, c)
<1> DEFINE b == [m EXCEPT !.place = m.from]
           o == Observe(b, "native")
<1>1. /\ c.place = m.from /\ m.wait = c.wait /\ m.byte = c.byte /\ m.seen = 0
      /\ m.visits["native"] = c.visits /\ m.polls = c.polls /\ m.visits["native"] = 0
      /\ m.byte # 0
      BY DEF Tracks, NativeAt, Loop
<1>2. /\ m \in Machine /\ c \in Point /\ Reached(script, c) /\ m.from \in Loop
      /\ "native" \in Stepper /\ c.byte \in 0 .. 2 /\ Sound(c) /\ m.from \in Place
      BY TracksFacts, PointFacts DEF Tracks, Place
<1>3. /\ b \in Machine /\ b.place = m.from /\ b.byte = m.byte /\ b.seen = m.seen
      /\ b.wait = m.wait /\ b.visits = m.visits /\ b.injected = m.injected
      /\ b.polls = m.polls
      BY <1>2, PlacedIs
<1> HIDE DEF b
<1>4. b.place \in Loop /\ b.visits["native"] + 1 < VisitsBeforeInterrupt
      BY <1>1, <1>2, <1>3, Threshold
<1>5. /\ o \in Machine /\ o.place = b.place /\ o.byte = b.byte /\ o.seen = b.seen
      /\ o.wait = b.wait /\ o.polls = b.polls /\ o.injected = b.injected
      /\ o.visits["native"] = b.visits["native"] + 1
  BY <1>2, <1>3, <1>4, VisitedIs
<1> HIDE DEF o
<1>6. /\ o.place = m.from /\ o.byte = m.byte /\ o.seen = 0 /\ o.wait = m.wait
      /\ o.polls = c.polls /\ o.injected = m.injected /\ o.visits["native"] = c.visits + 1
      BY <1>1, <1>3, <1>5
<1>7. ASSUME o.place \in {"early", "texture"} PROVE Goes(o, c)
  <2>1. NativeAt(script, o, c)
        BY <1>1, <1>6, <1>7 DEF NativeAt
  <2>2. Seeded(script, family, o, c)
        BY <1>6, SeedLater
  <2>3. QED
        BY <1>2, <1>5, <2>1, <2>2 DEF Tracks, Goes
<1>8. ASSUME o.place = "poll"
      PROVE  LET i == [Polled(o, 1) EXCEPT !.place = "changed"] IN
             i.place # "handler" /\ Goes(i, c)
  <2> DEFINE p == Polled(o, 1)
             i == [p EXCEPT !.place = "changed"]
  <2>1. c.place = "poll" /\ c.byte = 1 /\ c.visits = 0
        BY <1>1, <1>2, <1>6, <1>8 DEF Sound
  <2>2. /\ p \in Machine /\ p.byte = o.byte /\ p.seen = o.seen /\ p.wait = o.wait
        /\ p.visits = o.visits /\ p.injected = o.injected /\ p.polls = Capped(o.polls + 1)
        BY <1>5, PolledIs
  <2> HIDE DEF p
  <2>3. /\ i \in Machine /\ i.place = "changed" /\ i.byte = p.byte /\ i.seen = p.seen
        /\ i.wait = p.wait /\ i.visits = p.visits /\ i.injected = p.injected
        /\ i.polls = p.polls
    <3>1. "changed" \in Place
          BY DEF Place
    <3>2. QED
          BY <2>2, <3>1, PlacedIs
  <2> HIDE DEF i
  <2>4. /\ c.place \in Loop /\ Leaves(script, c) /\ c.visits + 1 # VisitsBeforeInterrupt
        /\ ~ (c.place = "texture" /\ c.byte # 0) /\ m.place \notin {"run", "entry"}
        BY <2>1, Threshold DEF Loop, Leaves
  <2>5. /\ i.seen = 0 /\ i.injected = m.injected /\ i.visits["native"] = c.visits + 1
        /\ i.polls = Capped(c.polls + 1) /\ i.wait = c.wait /\ i.byte = 1
        BY <1>1, <1>6, <2>1, <2>2, <2>3
  <2>6. i.place # "handler" /\ Goes(i, c)
        BY <2>3, <2>4, <2>5, LeftGoes
  <2>7. QED
        BY <2>6 DEF i, p
<1>9. m.byte # m.seen
      BY <1>1
<1>10. QED
       BY <1>6, <1>7, <1>8, <1>9 DEF o, b

\* The block at 0x10fa4 clears the byte and ends the wait.
LEMMA SuffixTracks ==
  ASSUME NEW m, NEW c, Tracks(m, c), m.place = "changed"
  PROVE  m.byte = 1 /\ Goes(WaitOver([m EXCEPT !.byte = 0]), c)
<1> DEFINE z == [m EXCEPT !.byte = 0]
           i == WaitOver(z)
<1>1. /\ c.place = "run" /\ m.visits["native"] = c.visits /\ m.polls = c.polls
      /\ m.byte = 1 /\ m.seen = 0 /\ c.wait = m.wait + 1 /\ c.byte = 0
      BY DEF Tracks, NativeAt, Loop
<1>2. m \in Machine /\ c \in Point /\ Reached(script, c)
      BY DEF Tracks
<1>3. /\ z \in Machine /\ z.byte = 0 /\ z.seen = m.seen /\ z.wait = m.wait
      /\ z.visits = m.visits /\ z.injected = m.injected /\ z.polls = m.polls
      BY <1>2, ZeroedIs
<1> HIDE DEF z
<1>4. /\ i \in Machine /\ i.place = "run" /\ i.byte = 0 /\ i.seen = 0
      /\ i.wait = c.wait /\ i.polls = c.polls
      /\ i.visits["native"] = c.visits /\ i.injected = m.injected
      BY <1>1, <1>3, WaitOverIs
<1> HIDE DEF i
<1>5. NativeAt(script, i, c)
      BY <1>1, <1>4 DEF NativeAt
<1>6. Seeded(script, family, i, c)
      BY <1>4, SeedLater
<1>7. QED
      BY <1>1, <1>2, <1>4, <1>5, <1>6 DEF Tracks, Goes, i, z

-------------------------------------------------------------------------------
(* The invariant: every session of one stepper is at a point of the course *)
(* of its script, and its stops are the frames of the course.              *)

OracleInv(s) ==
  /\ call[s] \in {"oracle", "none"}
  /\ \E c \in Point : /\ Reached(script, c) /\ OracleAt(script, machine[s], c)
                      /\ OracleLog(stops[s], c.log)

NativeInv(s) ==
  /\ call[s] \in {"native", "none"}
  /\ s \notin refused
  /\ \E c \in Point :
       /\ Tracks(machine[s], c)
       /\ NativeLog(script, family, HandlerStops(s), c.log)

Agrees(s) ==
  /\ s \in Pure("native") => NativeInv(s)
  /\ s \in Pure("oracle") => OracleInv(s)

AgreeInv == \A s \in Session : Agrees(s)

\* One more frame on both sides.
LEMMA NativeLogAppend ==
  ASSUME NEW sc, NEW fam, NEW q \in Seq(Stop), NEW r \in Stop,
         NEW log \in Seq(Frame), NEW f \in Frame, NativeLog(sc, fam, q, log),
         IsFrame(r, f), f.reads = r.polls + Missed(sc, fam, Len(log) + 1, r, f)
  PROVE  NativeLog(sc, fam, Append(q, r), Append(log, f))
<1> DEFINE p == Append(q, r)
           l == Append(log, f)
           n == Len(log)
<1>1. /\ n \in Nat /\ Len(q) = n /\ Len(l) = n + 1 /\ l[n + 1] = f
      /\ \A k \in 1 .. n : l[k] = log[k]
      BY DEF NativeLog
<1>2. /\ Len(p) = n + 1 /\ p[n + 1] = r /\ \A k \in 1 .. n : p[k] = q[k]
      BY <1>1
<1> HIDE DEF p, l
<1>3. ASSUME NEW k \in 1 .. n + 1
      PROVE  IsFrame(p[k], l[k]) /\ l[k].reads = p[k].polls + Missed(sc, fam, k, p[k], l[k])
  <2>1. CASE k = n + 1
        BY <1>1, <1>2, <2>1
  <2>2. CASE k # n + 1
    <3>1. k \in 1 .. n
          BY <1>1, <2>2
    <3>2. QED
          BY <1>1, <1>2, <3>1 DEF NativeLog
  <2>3. QED
        BY <2>1, <2>2
<1>4. NativeLog(sc, fam, p, l)
      BY <1>1, <1>2, <1>3 DEF NativeLog
<1>5. QED
      BY <1>4 DEF p, l

LEMMA OracleLogAppend ==
  ASSUME NEW q \in Seq(Stop), NEW r \in Stop, NEW log \in Seq(Frame), NEW f \in Frame,
         OracleLog(q, log), IsFrame(r, f), r.polls = f.reads
  PROVE  OracleLog(Append(q, r), Append(log, f))
<1> DEFINE p == Append(q, r)
           l == Append(log, f)
           n == Len(log)
<1>1. /\ n \in Nat /\ Len(q) = n /\ Len(l) = n + 1 /\ l[n + 1] = f
      /\ \A k \in 1 .. n : l[k] = log[k]
      BY DEF OracleLog
<1>2. /\ Len(p) = n + 1 /\ p[n + 1] = r /\ \A k \in 1 .. n : p[k] = q[k]
      BY <1>1
<1> HIDE DEF p, l
<1>3. ASSUME NEW k \in 1 .. n + 1
      PROVE  IsFrame(p[k], l[k]) /\ p[k].polls = l[k].reads
  <2>1. CASE k = n + 1
        BY <1>1, <1>2, <2>1
  <2>2. CASE k # n + 1
    <3>1. k \in 1 .. n
          BY <1>1, <2>2
    <3>2. QED
          BY <1>1, <1>2, <3>1 DEF OracleLog
  <2>3. QED
        BY <2>1, <2>2
<1>4. OracleLog(p, l)
      BY <1>1, <1>2, <1>3 DEF OracleLog
<1>5. QED
      BY <1>4 DEF p, l

\* The stop a machine makes.
StopOf(w, m) ==
  [stepper |-> w, place |-> m.place, from |-> m.from, byte |-> m.byte,
   request |-> m.request, wait |-> m.wait, polls |-> m.polls]

LEMMA StopOfType ==
  ASSUME NEW w \in Stepper, NEW m \in Machine
  PROVE  /\ StopOf(w, m) \in Stop
         /\ StopOf(w, m).place = m.place /\ StopOf(w, m).from = m.from
         /\ StopOf(w, m).byte = m.byte /\ StopOf(w, m).request = m.request
         /\ StopOf(w, m).wait = m.wait /\ StopOf(w, m).polls = m.polls
BY DEF StopOf, Stop, Machine

LEMMA ScriptType ==
  ASSUME TypeOK
  PROVE  script \in Seq(WaitKind)
BY WaitAssumption DEF TypeOK

LEMMA ReturnsStop ==
  ASSUME TypeOK, NEW s \in Session, NEW m, Returns(s, m)
  PROVE  /\ machine'[s] = m /\ call'[s] = "none" /\ refused' = refused
         /\ stops[s] \in Seq(Stop)
         /\ stops'[s] = Append(stops[s], StopOf(call[s], m))
         /\ script' = script /\ family' = family
BY DEF Returns, TypeOK, StopOf

LEMMA NativeArrives ==
  ASSUME NEW s, NEW i, NEW d, Tracks(i, d), script' = script, family' = family,
         machine'[s] = i, call'[s] \in {"native", "none"}, s \notin refused',
         NativeLog(script, family, AtHandler(stops'[s]), d.log)
  PROVE  NativeInv(s)'
<1>1. d \in Point
      BY DEF Tracks
<1>2. Tracks(machine[s], d)'
      BY DEF Tracks
<1>3. NativeLog(script, family, HandlerStops(s), d.log)'
      BY DEF HandlerStops
<1>4. QED
      BY <1>1, <1>2, <1>3 DEF NativeInv

\* The call goes on at the same frames.
LEMMA GoesOn ==
  ASSUME TypeOK, NEW s \in Session, call[s] = "native", s \notin refused,
         NEW i, NEW c, Goes(i, c), Continues(s, i),
         NativeLog(script, family, HandlerStops(s), c.log)
  PROVE  NativeInv(s)'
<1>1. PICK d : d.log = c.log /\ Tracks(i, d)
      BY DEF Goes
<1>2. /\ script' = script /\ family' = family /\ machine'[s] = i
      /\ call'[s] = "native" /\ s \notin refused' /\ stops'[s] = stops[s]
      BY DEF Continues, TypeOK
<1>3. NativeLog(script, family, AtHandler(stops'[s]), d.log)
      BY <1>1, <1>2 DEF HandlerStops
<1>4. QED
      BY <1>1, <1>2, <1>3, NativeArrives

\* The call returns, at a handler with a frame more.
LEMMA ReturnsOn ==
  ASSUME TypeOK, NEW s \in Session, call[s] = "native", s \notin refused,
         NEW i, NEW c, c.log \in Seq(Frame),
         \/ i.place # "handler" /\ Goes(i, c)
         \/ i.place = "handler" /\ Ticks(i, c),
         Returns(s, i),
         NativeLog(script, family, HandlerStops(s), c.log)
  PROVE  NativeInv(s)'
<1> DEFINE r == StopOf("native", i)
           q == AtHandler(stops[s])
<1>1. /\ machine'[s] = i /\ call'[s] = "none" /\ s \notin refused'
      /\ stops[s] \in Seq(Stop) /\ stops'[s] = Append(stops[s], r)
      /\ script' = script /\ family' = family
      BY ReturnsStop
<1>2. i \in Machine /\ "native" \in Stepper
      BY DEF Goes, Ticks, Tracks, Stepper
<1>3. /\ r \in Stop /\ r.place = i.place /\ r.from = i.from /\ r.byte = i.byte
      /\ r.request = i.request /\ r.wait = i.wait /\ r.polls = i.polls
      BY <1>2, StopOfType
<1> HIDE DEF r
<1>4. AtHandler(stops'[s]) = Take(q, r) /\ q \in Seq(Stop)
      BY <1>1, <1>3, AtHandlerAppend, AtHandlerType
<1>5. NativeLog(script, family, q, c.log)
      BY DEF HandlerStops
<1> HIDE DEF q
<1>6. CASE i.place # "handler" /\ Goes(i, c)
  <2>1. PICK d : d.log = c.log /\ Tracks(i, d)
        BY <1>6 DEF Goes
  <2>2. AtHandler(stops'[s]) = q
        BY <1>3, <1>4, <1>6 DEF Take
  <2>3. NativeLog(script, family, AtHandler(stops'[s]), d.log)
        BY <1>5, <2>1, <2>2
  <2>4. QED
        BY <1>1, <2>1, <2>3, NativeArrives
<1>7. CASE i.place = "handler" /\ Ticks(i, c)
  <2>1. PICK d : \E f \in Frame :
          /\ Tracks(i, d) /\ d.log = Append(c.log, f)
          /\ IsFrame(i, f)
          /\ f.reads = i.polls + Missed(script, family, Len(c.log) + 1, i, f)
        BY <1>7 DEF Ticks
  <2>2. PICK f \in Frame :
          /\ Tracks(i, d) /\ d.log = Append(c.log, f)
          /\ IsFrame(i, f)
          /\ f.reads = i.polls + Missed(script, family, Len(c.log) + 1, i, f)
        BY <2>1
  <2>3. AtHandler(stops'[s]) = Append(q, r)
        BY <1>3, <1>4, <1>7 DEF Take
  <2>4. IsFrame(r, f)
        BY <1>3, <2>2 DEF IsFrame
  <2>5. f.reads = r.polls + Missed(script, family, Len(c.log) + 1, r, f)
        BY <1>3, <2>2 DEF Missed
  <2>6. NativeLog(script, family, Append(q, r), Append(c.log, f))
        BY <1>3, <1>4, <1>5, <2>4, <2>5, NativeLogAppend
  <2>7. NativeLog(script, family, AtHandler(stops'[s]), d.log)
        BY <2>2, <2>3, <2>6
  <2>8. QED
        BY <1>1, <2>2, <2>7, NativeArrives
<1>8. QED
      BY <1>6, <1>7

\* Each block of a session of the native runtime alone keeps it on the course.
LEMMA NativeStepAgrees ==
  ASSUME TypeOK, NEW s \in Session, NativeInv(s), Step(s)
  PROVE  NativeInv(s)'
<1> DEFINE m == machine[s]
<1>1. script \in Seq(WaitKind)
      BY ScriptType
<1>2. Running(s) /\ call[s] = "native" /\ s \notin refused /\ m.wait <= Len(script)
  <2>1. Running(s) /\ call[s] # "none"
        BY DEF Step, NativeToWait, NativeTextureEntry, NativeMainPoll, NativePendingBlank,
           NativeEarlyPoll, NativeTexturePoll, NativeHandler, NativeReturn,
           NativeTimerSuffix, OracleIterate, InNative
  <2>2. m.wait \in Nat /\ Len(script) \in Nat
        BY <1>1 DEF TypeOK, Machine
  <2>3. ~ (m.wait > Len(script))
        BY <2>1 DEF Running, Ended
  <2>4. QED
        BY <2>1, <2>2, <2>3 DEF NativeInv
<1>3. PICK c \in Point :
        Tracks(m, c) /\ NativeLog(script, family, HandlerStops(s), c.log)
      BY DEF NativeInv
<1>4. c.log \in Seq(Frame)
      BY PointFacts
<1> HIDE DEF m
<1>5. CASE NativeToWait(s)
  <2>1. m.place = "run" /\ script[m.wait] \in {"main", "early"}
        BY <1>5 DEF NativeToWait, InNative, m
  <2>2. m.byte = 0 /\ Goes(AtWait(m), c)
        BY <1>1, <1>2, <1>3, <2>1, GoesToWait
  <2>3. Continues(s, AtWait(m))
        BY <1>5, <2>2 DEF NativeToWait, m
  <2>4. QED
        BY <1>2, <1>3, <2>2, <2>3, GoesOn
<1>6. CASE NativeTextureEntry(s)
  <2> DEFINE o == Observe(AtWait(m), "native")
  <2>1. m.place = "run" /\ script[m.wait] \in {"texture", "released"} /\ Returns(s, o)
        BY <1>6 DEF NativeTextureEntry, InNative, m
  <2>2. \/ o.place # "handler" /\ Goes(o, c)
        \/ o.place = "handler" /\ Ticks(o, c)
        BY <1>1, <1>2, <1>3, <2>1, TextureEntryTracks
  <2> HIDE DEF o
  <2>3. QED
        BY <1>2, <1>3, <1>4, <2>1, <2>2, ReturnsOn
<1>7. CASE NativeMainPoll(s)
  <2> DEFINE i == PollToInterrupt([m EXCEPT !.place = "poll", !.seen = m.byte],
                    VisitsBeforeInterrupt - PhaseSeed(m) - 1)
  <2>1. m.place = "entry" /\ Returns(s, i)
        BY <1>7 DEF NativeMainPoll, InNative, m
  <2>2. i.place = "handler" /\ Ticks(i, c)
        BY <1>1, <1>3, <2>1, MainPollTracks
  <2> HIDE DEF i
  <2>3. QED
        BY <1>2, <1>3, <1>4, <2>1, <2>2, ReturnsOn
<1>8. CASE NativePendingBlank(s)
  <2> DEFINE i == PollToInterrupt(m, 0)
  <2>1. m.place = "early" /\ script[m.wait] = "early" /\ m.byte = 0 /\ Returns(s, i)
        BY <1>8 DEF NativePendingBlank, InNative, m
  <2>2. i.place = "handler" /\ Ticks(i, c)
        BY <1>1, <1>3, <2>1, PendingTracks
  <2> HIDE DEF i
  <2>3. QED
        BY <1>2, <1>3, <1>4, <2>1, <2>2, ReturnsOn
<1>9. CASE NativeEarlyPoll(s)
  <2> DEFINE i == IF EarlyRepeats(m)
                  THEN PollToInterrupt(m, VisitsBeforeInterrupt - m.visits["native"])
                  ELSE EarlyExit(m)
  <2>1. Returns(s, i)
        BY <1>9 DEF NativeEarlyPoll, m
  <2>2. m.place = "early"
        BY <1>9 DEF NativeEarlyPoll, InNative, m
  <2>3. script[m.wait] # "early" \/ m.byte # 0
        BY <1>9 DEF NativeEarlyPoll, InNative, m
  <2>4. \/ i.place # "handler" /\ Goes(i, c)
        \/ i.place = "handler" /\ Ticks(i, c)
        BY <1>1, <1>3, <2>2, <2>3, EarlyPollTracks
  <2> HIDE DEF i
  <2>5. QED
        BY <1>2, <1>3, <1>4, <2>1, <2>4, ReturnsOn
<1>10. CASE NativeTexturePoll(s)
  <2> DEFINE i == IF m.byte # m.seen
                  THEN Observe([Polled(m, 1) EXCEPT !.place = "early"], "native")
                  ELSE IF script[m.wait] = "released"
                  THEN WaitOver(Polled(m, 1))
                  ELSE PollToInterrupt(m, VisitsBeforeInterrupt - m.visits["native"])
  <2>1. m.place = "texture" /\ Returns(s, i)
        BY <1>10 DEF NativeTexturePoll, InNative, m
  <2>2. \/ i.place # "handler" /\ Goes(i, c)
        \/ i.place = "handler" /\ Ticks(i, c)
        BY <1>1, <1>3, <2>1, TexturePollTracks
  <2> HIDE DEF i
  <2>3. QED
        BY <1>2, <1>3, <1>4, <2>1, <2>2, ReturnsOn
<1>11. CASE NativeHandler(s)
  <2>1. m.place = "handler" /\ Continues(s, Handled(m))
        BY <1>11 DEF NativeHandler, InNative, m
  <2>2. Goes(Handled(m), c)
        BY <1>1, <1>3, <2>1, HandlerTracks
  <2>3. QED
        BY <1>2, <1>3, <2>1, <2>2, GoesOn
<1>12. CASE NativeReturn(s)
  <2> DEFINE o == Observe([m EXCEPT !.place = m.from], "native")
             i == [Polled(o, 1) EXCEPT !.place = "changed"]
  <2>1. /\ m.place = "return"
        /\ \/ o.place \in {"early", "texture"} /\ Returns(s, o)
           \/ o.place = "poll" /\ m.byte # m.seen /\ Returns(s, i)
           \/ (o.place = "handler" \/ (o.place = "poll" /\ m.byte = m.seen))
                /\ Refuses(s, o)
        BY <1>12 DEF NativeReturn, InNative, m
  <2>2. /\ o.place = m.from
        /\ o.place \in {"early", "texture"} => Goes(o, c)
        /\ o.place = "poll" => m.byte # m.seen /\ i.place # "handler" /\ Goes(i, c)
        BY <1>1, <1>3, <2>1, ReturnTracks
  <2>3. m.from \in Loop
        BY <1>3, TracksFacts
  <2> HIDE DEF o, i
  <2>4. \/ o.place \in {"early", "texture"} /\ Returns(s, o) /\ Goes(o, c)
        \/ Returns(s, i) /\ Goes(i, c) /\ i.place # "handler"
        BY <2>1, <2>2, <2>3 DEF Loop
  <2>5. \E j : Returns(s, j) /\ Goes(j, c) /\ j.place # "handler"
        BY <2>4
  <2>6. PICK j : Returns(s, j) /\ Goes(j, c) /\ j.place # "handler"
        BY <2>5
  <2>7. QED
        BY <1>2, <1>3, <1>4, <2>6, ReturnsOn
<1>13. CASE NativeTimerSuffix(s)
  <2> DEFINE i == WaitOver([m EXCEPT !.byte = 0])
  <2>1. m.place = "changed"
        BY <1>13 DEF NativeTimerSuffix, InNative, m
  <2>2. m.byte = 1 /\ Goes(i, c)
        BY <1>3, <2>1, SuffixTracks
  <2>3. ~ (m.byte >= 2)
        BY <2>2
  <2>4. Continues(s, i)
        BY <1>13, <2>3 DEF NativeTimerSuffix, m
  <2> HIDE DEF i
  <2>5. QED
        BY <1>2, <1>3, <2>2, <2>4, GoesOn
<1>14. CASE OracleIterate(s)
       BY <1>2, <1>14 DEF OracleIterate
<1>15. QED
       BY <1>5, <1>6, <1>7, <1>8, <1>9, <1>10, <1>11, <1>12, <1>13, <1>14 DEF Step

LEMMA OracleArrives ==
  ASSUME NEW s, NEW d \in Point, Reached(script, d), script' = script,
         OracleAt(script, machine'[s], d), call'[s] \in {"oracle", "none"},
         OracleLog(stops'[s], d.log)
  PROVE  OracleInv(s)'
<1>1. Reached(script', d) /\ OracleAt(script', machine'[s], d)
      OBVIOUS
<1>2. QED
      BY <1>1 DEF OracleInv

\* Each step of a session of the oracle alone keeps it on the course.
LEMMA OracleStepAgrees ==
  ASSUME TypeOK, NEW s \in Session, OracleInv(s), Step(s)
  PROVE  OracleInv(s)'
<1> DEFINE m == machine[s]
<1>1. script \in Seq(WaitKind)
      BY ScriptType
<1>2. OracleIterate(s) /\ Running(s) /\ call[s] = "oracle" /\ m.wait <= Len(script)
  <2>1. OracleIterate(s)
        BY DEF OracleInv, Step, NativeToWait, NativeTextureEntry, NativeMainPoll,
           NativePendingBlank, NativeEarlyPoll, NativeTexturePoll, NativeHandler,
           NativeReturn, NativeTimerSuffix, InNative
  <2>2. m.wait \in Nat /\ Len(script) \in Nat
        BY <1>1 DEF TypeOK, Machine
  <2>3. ~ (m.wait > Len(script))
        BY <2>1 DEF OracleIterate, Running, Ended
  <2>4. QED
        BY <2>1, <2>2, <2>3 DEF OracleIterate
<1>3. PICK c \in Point : Reached(script, c) /\ OracleAt(script, m, c)
                          /\ OracleLog(stops[s], c.log)
      BY DEF OracleInv
<1>4. m \in Machine /\ c.log \in Seq(Frame) /\ "oracle" \in Stepper
      BY PointFacts DEF TypeOK, Stepper
<1>5. Reached(script, Onward(script, c)) /\ Onward(script, c) \in Point
      BY <1>1, <1>3, ReachedOnward
<1> DEFINE o == Observe(m, "oracle")
           v == m.visits["oracle"]
<1>6. /\ m.place \in Loop /\ o.place = "handler" => Returns(s, o)
      /\ ~ (m.place \in Loop /\ o.place = "handler") => Continues(s, Instructions(o))
      BY <1>2 DEF OracleIterate
\* A step that stays at a point or goes on to the next, without a frame.
<1>7. ASSUME NEW i, Continues(s, i),
             \E d \in {c, Onward(script, c)} :
               d \in Point /\ d.log = c.log /\ OracleAt(script, i, d)
      PROVE  OracleInv(s)'
  <2>1. PICK d \in {c, Onward(script, c)} :
          d \in Point /\ d.log = c.log /\ OracleAt(script, i, d)
        BY <1>7
  <2>2. Reached(script, d)
        BY <1>3, <1>5, <2>1
  <2>3. /\ script' = script /\ machine'[s] = i /\ call'[s] = "oracle"
        /\ stops'[s] = stops[s]
        BY <1>2, <1>7 DEF Continues, TypeOK
  <2>4. OracleAt(script, machine'[s], d) /\ OracleLog(stops'[s], d.log)
        BY <1>3, <2>1, <2>3
  <2>5. QED
        BY <2>1, <2>2, <2>3, <2>4, OracleArrives
<1> HIDE DEF m
<1>8. CASE m.place \notin Loop
  <2>1. o = m
        BY <1>8 DEF Observe
  <2>2. \E d \in {c, Onward(script, c)} :
          d \in Point /\ d.log = c.log /\ OracleAt(script, Instructions(m), d)
        BY <1>1, <1>2, <1>3, <1>4, <1>8, OracleElsewhere
  <2>3. Continues(s, Instructions(m))
        BY <1>6, <1>8, <2>1
  <2>4. QED
        BY <1>7, <2>2, <2>3
<1>9. CASE m.place \in Loop /\ v + 1 < VisitsBeforeInterrupt
  <2>1. o.place = m.place
        BY <1>4, <1>9, VisitedIs
  <2>2. \E d \in {c, Onward(script, c)} :
          d \in Point /\ d.log = c.log /\ OracleAt(script, Instructions(o), d)
        BY <1>3, <1>4, <1>9, OracleRead
  <2>3. Continues(s, Instructions(o))
        BY <1>6, <1>9, <2>1 DEF Loop
  <2> HIDE DEF o
  <2>4. QED
        BY <1>7, <2>2, <2>3
<1>10. CASE m.place \in Loop /\ ~ (v + 1 < VisitsBeforeInterrupt)
  <2> DEFINE j == Inject(m, "oracle")
             d == Onward(script, c)
             f == FrameOf(c)
             r == StopOf("oracle", j)
  <2>1. o = j
        BY <1>4, <1>10, ThresholdIs
  <2>2. /\ j \in Machine /\ d \in Point /\ OracleAt(script, j, d)
        /\ d.log = Append(c.log, f) /\ f \in Frame
        /\ j.place = "handler" /\ j.request = TRUE /\ j.wait = f.wait
        /\ j.from = f.from /\ j.byte = f.byte /\ j.polls = f.reads
        BY <1>3, <1>4, <1>10, OracleBlank
  <2>3. Returns(s, j)
        BY <1>6, <1>10, <2>1, <2>2
  <2> HIDE DEF j, d, f
  <2>4. /\ machine'[s] = j /\ call'[s] = "none" /\ script' = script
        /\ stops[s] \in Seq(Stop) /\ stops'[s] = Append(stops[s], r)
        BY <1>2, <2>3, ReturnsStop
  <2>5. /\ r \in Stop /\ r.place = j.place /\ r.from = j.from /\ r.byte = j.byte
        /\ r.request = j.request /\ r.wait = j.wait /\ r.polls = j.polls
        BY <1>4, <2>2, StopOfType
  <2> HIDE DEF r
  <2>6. IsFrame(r, f) /\ r.polls = f.reads
        BY <2>2, <2>5 DEF IsFrame
  <2>7. OracleLog(stops'[s], d.log)
        BY <1>3, <1>4, <2>2, <2>4, <2>5, <2>6, OracleLogAppend
  <2>8. Reached(script, d)
        BY <1>5 DEF d
  <2>9. OracleAt(script, machine'[s], d)
        BY <2>2, <2>4
  <2>10. QED
        BY <2>2, <2>4, <2>7, <2>8, <2>9, OracleArrives
<1>11. QED
       BY <1>8, <1>9, <1>10

LEMMA OthersAgree ==
  ASSUME NEW s, Agrees(s), script' = script, family' = family,
         machine'[s] = machine[s], stops'[s] = stops[s],
         s \in refused' => s \in refused,
         call'[s] = call[s]
  PROVE  Agrees(s)'
<1>1. NativeInv(s) => NativeInv(s)'
  <2>1. ASSUME NativeInv(s) PROVE NativeInv(s)'
    <3>1. PICK c \in Point :
            Tracks(machine[s], c) /\ NativeLog(script, family, HandlerStops(s), c.log)
          BY <2>1 DEF NativeInv
    <3>2. call'[s] \in {"native", "none"} /\ s \notin refused'
          BY <2>1 DEF NativeInv
    <3>3. NativeLog(script, family, AtHandler(stops'[s]), c.log)
          BY <3>1 DEF HandlerStops
    <3>4. QED
          BY <3>1, <3>2, <3>3, NativeArrives
  <2>2. QED
        BY <2>1
<1>2. OracleInv(s) => OracleInv(s)'
  <2>1. ASSUME OracleInv(s) PROVE OracleInv(s)'
    <3>1. PICK c \in Point : Reached(script, c) /\ OracleAt(script, machine[s], c)
                              /\ OracleLog(stops[s], c.log)
          BY <2>1 DEF OracleInv
    <3>2. call'[s] \in {"oracle", "none"}
          BY <2>1 DEF OracleInv
    <3>3. OracleAt(script, machine'[s], c) /\ OracleLog(stops'[s], c.log)
          BY <3>1
    <3>4. QED
          BY <3>1, <3>2, <3>3, OracleArrives
  <2>2. QED
        BY <2>1
<1>3. QED
      BY <1>1, <1>2 DEF Agrees, Pure

\* What a step leaves alone.
LEMMA StepFrame ==
  ASSUME TypeOK, NEW s \in Session, Step(s)
  PROVE  /\ script' = script /\ family' = family
         /\ \A t \in Session : t # s =>
              /\ machine'[t] = machine[t] /\ stops'[t] = stops[t] /\ call'[t] = call[t]
              /\ t \in refused' => t \in refused
<1>1. \E m : Returns(s, m) \/ Continues(s, m) \/ Refuses(s, m)
      BY DEF Step, NativeToWait, NativeTextureEntry, NativeMainPoll, NativePendingBlank,
         NativeEarlyPoll, NativeTexturePoll, NativeHandler, NativeReturn,
         NativeTimerSuffix, OracleIterate
<1>2. PICK m : Returns(s, m) \/ Continues(s, m) \/ Refuses(s, m)
      BY <1>1
<1>3. QED
      BY <1>2 DEF Returns, Continues, Refuses, TypeOK

LEMMA InitAgrees == Init => AgreeInv
<1> SUFFICES ASSUME Init, NEW s \in Session PROVE Agrees(s)
    BY DEF AgreeInv
<1>1. TypeOK
      BY InitIInv DEF IInv
<1>2. /\ machine[s] = Start /\ call[s] = "none" /\ stops[s] = <<>> /\ s \notin refused
      /\ family => script[1] = "main"
      BY DEF Init
<1>3. Reached(script, Outset) /\ Outset \in Point
      BY ReachedOutset, OutsetPoint
<1>4. /\ Start.seen = 0 /\ Start.place = "run" /\ Start.byte = 0 /\ Start.wait = 1
      /\ Start.polls = 0 /\ Start.visits["native"] = 0 /\ Start.visits["oracle"] = 0
      /\ Start.injected["native"] = FALSE /\ Start.entered = family
      BY DEF Start, Stepper
<1>5. /\ Outset.place = "run" /\ Outset.byte = 0 /\ Outset.wait = 1
      /\ Outset.visits = 0 /\ Outset.polls = 0 /\ Outset.log = <<>>
      BY DEF Outset
<1>6. Start \in Machine
      BY <1>1, <1>2 DEF TypeOK
<1>7. NativeAt(script, Start, Outset)
      BY <1>4, <1>5 DEF NativeAt
<1>8. Seeded(script, family, Start, Outset)
      BY <1>2, <1>4, <1>5 DEF Seeded
<1>9. OracleAt(script, Start, Outset)
      BY <1>4, <1>5 DEF OracleAt
<1>10. HandlerStops(s) = <<>>
       BY <1>2, AtHandlerNone DEF HandlerStops
<1>11. NativeLog(script, family, HandlerStops(s), Outset.log) /\ OracleLog(stops[s], Outset.log)
       BY <1>2, <1>5, <1>10 DEF NativeLog, OracleLog
<1>12. Tracks(machine[s], Outset)
       BY <1>2, <1>3, <1>6, <1>7, <1>8 DEF Tracks
<1>13. NativeInv(s)
       BY <1>2, <1>3, <1>11, <1>12 DEF NativeInv
<1>14. OracleInv(s)
       BY <1>2, <1>3, <1>9, <1>11 DEF OracleInv
<1>15. QED
       BY <1>13, <1>14 DEF Agrees

\* The invariant of the two steppers is inductive, given the types.
LEMMA NextAgrees == IInv /\ AgreeInv /\ [Next]_vars => AgreeInv'
<1> SUFFICES ASSUME IInv, AgreeInv, [Next]_vars, NEW t \in Session PROVE Agrees(t)'
    BY DEF AgreeInv, Session
<1>1. TypeOK /\ Agrees(t)
      BY DEF IInv, AgreeInv
<1>2. CASE UNCHANGED vars
      BY <1>1, <1>2, OthersAgree DEF vars
<1>3. ASSUME NEW s \in Session, Step(s) PROVE Agrees(t)'
  <2>1. CASE t = s
    <3>1. t \in Pure("native") => NativeInv(t)'
          BY <1>1, <1>3, <2>1, NativeStepAgrees DEF Agrees
    <3>2. t \in Pure("oracle") => OracleInv(t)'
          BY <1>1, <1>3, <2>1, OracleStepAgrees DEF Agrees
    <3>3. QED
          BY <3>1, <3>2 DEF Agrees, Pure
  <2>2. CASE t # s
    <3>1. /\ script' = script /\ family' = family
          /\ machine'[t] = machine[t] /\ stops'[t] = stops[t] /\ call'[t] = call[t]
          /\ t \in refused' => t \in refused
          BY <1>1, <1>3, <2>2, StepFrame
    <3>2. QED
          BY <1>1, <3>1, OthersAgree
  <2>3. QED
        BY <2>1, <2>2
<1>4. ASSUME NEW s \in Session, NEW w \in Stepper, BeginCall(s, w) PROVE Agrees(t)'
  <2>1. /\ script' = script /\ family' = family /\ machine' = machine /\ stops' = stops
        /\ refused' = refused /\ call' = [call EXCEPT ![s] = w] /\ w \in Steppers[s]
        BY <1>4 DEF BeginCall
  <2>2. CASE t # s
    <3>1. call'[t] = call[t]
          BY <1>1, <2>1, <2>2 DEF TypeOK
    <3>2. QED
          BY <1>1, <2>1, <3>1, OthersAgree
  <2>3. CASE t = s
    <3>1. call'[t] = w
          BY <1>1, <2>1, <2>3 DEF TypeOK
    <3>2. ASSUME t \in Pure("native") PROVE NativeInv(t)'
      <4>1. call'[t] = "native"
            BY <2>1, <2>3, <3>1, <3>2 DEF Pure
      <4>2. NativeInv(t)
            BY <1>1, <3>2 DEF Agrees
      <4>3. PICK c \in Point :
              Tracks(machine[t], c) /\ NativeLog(script, family, HandlerStops(t), c.log)
            BY <4>2 DEF NativeInv
      <4>4. t \notin refused' /\ machine'[t] = machine[t]
            BY <2>1, <4>2 DEF NativeInv
      <4>5. NativeLog(script, family, AtHandler(stops'[t]), c.log)
            BY <2>1, <4>3 DEF HandlerStops
      <4>6. QED
            BY <2>1, <4>1, <4>3, <4>4, <4>5, NativeArrives
    <3>3. ASSUME t \in Pure("oracle") PROVE OracleInv(t)'
      <4>1. call'[t] = "oracle"
            BY <2>1, <2>3, <3>1, <3>3 DEF Pure
      <4>2. OracleInv(t)
            BY <1>1, <3>3 DEF Agrees
      <4>3. PICK c \in Point : Reached(script, c) /\ OracleAt(script, machine[t], c)
                                /\ OracleLog(stops[t], c.log)
            BY <4>2 DEF OracleInv
      <4>4. OracleAt(script, machine'[t], c) /\ OracleLog(stops'[t], c.log)
            BY <2>1, <4>3
      <4>5. QED
            BY <2>1, <4>1, <4>3, <4>4, OracleArrives
    <3>4. QED
          BY <3>2, <3>3 DEF Agrees, Pure
  <2>4. QED
        BY <2>2, <2>3
<1>5. QED
      BY <1>2, <1>3, <1>4 DEF Next

\* Every session of one stepper stays on the course of the script.
LEMMA AgreeInvariance == Spec => [](IInv /\ AgreeInv)
<1>1. Init => IInv /\ AgreeInv
      BY InitIInv, InitAgrees
<1>2. (IInv /\ AgreeInv) /\ [Next]_vars => (IInv /\ AgreeInv)'
      BY NextIInv, NextAgrees
<1>3. QED
      BY <1>1, <1>2, PTL DEF Spec

-------------------------------------------------------------------------------
\* A frame both have come to is one frame of the course.
LEMMA SharedFrame ==
  ASSUME TypeOK, AgreeInv, NEW s \in Pure("native"), NEW t \in Pure("oracle"),
         NEW k \in Both(s, t)
  PROVE  LET n == HandlerStops(s)[k]
             o == stops[t][k] IN
         \E f : /\ IsFrame(n, f) /\ f.reads = n.polls + Missed(script, family, k, n, f)
                /\ IsFrame(o, f) /\ o.polls = f.reads
                /\ n.polls \in Nat /\ o.polls \in Nat
<1> DEFINE h == HandlerStops(s)
           q == stops[t]
<1>1. s \in Session /\ t \in Session
      BY DEF Pure
<1>2. h \in Seq(Stop) /\ q \in Seq(Stop)
      BY <1>1, AtHandlerType DEF TypeOK, HandlerStops
<1>3. script \in Seq(WaitKind)
      BY ScriptType
<1>4. Agrees(s) /\ Agrees(t)
      BY <1>1 DEF AgreeInv
<1>5. PICK c \in Point : Tracks(machine[s], c) /\ NativeLog(script, family, h, c.log)
      BY <1>4 DEF Agrees, NativeInv
<1>6. PICK d \in Point : Reached(script, d) /\ OracleLog(q, d.log)
      BY <1>4 DEF Agrees, OracleInv
<1>7. Reached(script, c)
      BY <1>5 DEF Tracks
<1>8. Begins(c.log, d.log) \/ Begins(d.log, c.log)
      BY <1>3, <1>6, <1>7, OneCourse
<1>9. Len(h) = Len(c.log) /\ Len(q) = Len(d.log)
      BY <1>5, <1>6 DEF NativeLog, OracleLog
<1>10. k \in 1 .. Len(h) /\ k \in 1 .. Len(q)
  <2>1. k \in 1 .. (IF Len(h) < Len(q) THEN Len(h) ELSE Len(q))
        BY DEF Both
  <2>2. Len(h) \in Nat /\ Len(q) \in Nat
        BY <1>2
  <2> HIDE DEF h, q
  <2>3. QED
        BY <2>1, <2>2
<1> HIDE DEF h, q
<1>11. k \in 1 .. Len(c.log) /\ k \in 1 .. Len(d.log)
       BY <1>9, <1>10
<1>12. c.log[k] = d.log[k]
       BY <1>8, <1>11 DEF Begins
<1>13. /\ IsFrame(h[k], c.log[k])
       /\ c.log[k].reads = h[k].polls + Missed(script, family, k, h[k], c.log[k])
       BY <1>5, <1>11 DEF NativeLog
<1>14. IsFrame(q[k], d.log[k]) /\ q[k].polls = d.log[k].reads
       BY <1>6, <1>11 DEF OracleLog
<1>15. h[k] \in Stop /\ q[k] \in Stop
       BY <1>2, <1>10
<1>16. h[k].polls \in Nat /\ q[k].polls \in Nat
       BY <1>15, Threshold DEF Stop
<1>17. QED
       BY <1>12, <1>13, <1>14, <1>16 DEF h, q

LEMMA AgreeInvBoundaries == TypeOK /\ AgreeInv => BoundariesAgree
<1> SUFFICES ASSUME TypeOK, AgreeInv, NEW s \in Pure("native"), NEW t \in Pure("oracle"),
                    NEW k \in Both(s, t)
             PROVE  LET n == HandlerStops(s)[k]
                        o == stops[t][k] IN
                    <<n.wait, n.from, n.byte, n.request>>
                      = <<o.wait, o.from, o.byte, o.request>>
    BY DEF BoundariesAgree
<1>1. PICK f : IsFrame(HandlerStops(s)[k], f) /\ IsFrame(stops[t][k], f)
      BY SharedFrame
<1>2. QED
      BY <1>1 DEF IsFrame

LEMMA AgreeInvPolls == TypeOK /\ AgreeInv => PollsAgree
<1> SUFFICES ASSUME TypeOK, AgreeInv, NEW s \in Pure("native"), NEW t \in Pure("oracle"),
                    NEW k \in Both(s, t)
             PROVE  stops[t][k].polls = HandlerStops(s)[k].polls + Shortfall(s, t, k)
    BY DEF PollsAgree
<1> DEFINE n == HandlerStops(s)[k]
           o == stops[t][k]
<1>1. PICK f : /\ f.reads = n.polls + Missed(script, family, k, n, f)
               /\ o.polls = f.reads /\ n.polls \in Nat /\ o.polls \in Nat
      BY SharedFrame
<1>2. Missed(script, family, k, n, f) = Shortfall(s, t, k)
      BY <1>1 DEF Missed, Shortfall
<1>3. QED
      BY <1>1, <1>2

\* Two sessions run from one snapshot, one by the native runtime and one by the
\* oracle, stop at the vector-12 handler with the same loop of the same wait
\* interrupted and the same frame byte and request, frame by frame
\* (session.h:31, session.c:98-198): no visit a wait leaves behind, no early
\* blank and no seeded visit shifts a boundary.
THEOREM BoundariesAlike == Spec => []BoundariesAgree
<1>1. IInv /\ AgreeInv => BoundariesAgree
      BY AgreeInvBoundaries DEF IInv
<1>2. QED
      BY <1>1, AgreeInvariance, PTL

\* Between two frames both have read the frame byte as often, but for the seeded
\* visit of a resumed snapshot and a wait whose blank is due at once: the native
\* blocks count the visits they compute at once (texture_bridge_match.c) as
\* vf2_hybrid_frame_wait_observe (frame_wait.c:23) does one by one.
THEOREM PollsAlike == Spec => []PollsAgree
<1>1. IInv /\ AgreeInv => PollsAgree
      BY AgreeInvPolls DEF IInv
<1>2. QED
      BY <1>1, AgreeInvariance, PTL

-------------------------------------------------------------------------------
(* A program that only waits in the main loop.                             *)

OnlyMain(sc) == \A i \in 1 .. Len(sc) : sc[i] = "main"

\* Frame k of its course interrupts wait k.
Numbered(log) == \A k \in 1 .. Len(log) : log[k].wait = k

MainPoint(c) ==
  /\ c.place \in {"run", "poll", "handler"}
  /\ c.place = "run" => Len(c.log) = c.wait - 1
  /\ c.place = "poll" => Len(c.log) = IF c.byte = 0 THEN c.wait - 1 ELSE c.wait
  /\ c.place = "handler" => c.from = "poll" /\ c.byte = 0 /\ Len(c.log) = c.wait
  /\ Numbered(c.log)

\* A step of the course of such a program.
LEMMA MainOnward ==
  ASSUME NEW sc \in Seq(WaitKind), OnlyMain(sc), NEW c \in Point, MainPoint(c)
  PROVE  MainPoint(Onward(sc, c))
<1> DEFINE d == Onward(sc, c)
<1>1. /\ c.log \in Seq(Frame) /\ c.wait \in Nat \ {0} /\ Len(sc) \in Nat /\ Sound(c)
      /\ c.byte \in 0 .. 2
      BY PointFacts
<1>2. CASE c.place = "run" /\ c.wait > Len(sc)
  <2>1. d = c
        BY <1>2 DEF Onward
  <2>2. QED
        BY <2>1
<1>3. CASE c.place = "run" /\ ~ (c.wait > Len(sc))
  <2>1. c.wait \in 1 .. Len(sc)
        BY <1>1, <1>3
  <2>2. /\ d.place = FirstLoop(sc[c.wait]) /\ d.wait = c.wait /\ d.byte = 0
        /\ d.log = c.log
        BY <1>1, <1>3, <2>1, RunFacts
  <2>3. d.place = "poll"
        BY <2>1, <2>2 DEF OnlyMain, FirstLoop
  <2> HIDE DEF d
  <2>4. MainPoint(d)
        BY <1>3, <2>2, <2>3 DEF MainPoint
  <2>5. QED
        BY <2>4 DEF d
<1>4. CASE c.place = "handler"
  <2>1. /\ d.place = c.from /\ d.wait = c.wait /\ d.byte = c.byte + 1 /\ d.log = c.log
        BY <1>4, HandlerFacts
  <2> HIDE DEF d
  <2>2. MainPoint(d)
        BY <1>1, <1>4, <2>1 DEF MainPoint
  <2>3. QED
        BY <2>2 DEF d
<1>5. CASE c.place = "poll" /\ c.byte = 0
  <2>1. c.place \in Loop /\ ~ Leaves(sc, c)
        BY <1>5 DEF Loop, Leaves
  <2>2. /\ d = Blank(c) /\ d.place = "handler" /\ d.from = "poll" /\ d.wait = c.wait
        /\ d.byte = 0 /\ d.log = Append(c.log, FrameOf(c)) /\ FrameOf(c).wait = c.wait
        /\ FrameOf(c) \in Frame
        BY <1>5, <2>1, BlankFacts, FrameOfType
  <2> DEFINE f == FrameOf(c)
  <2> HIDE DEF d, f
  <2>3. Len(c.log) \in Nat /\ Len(c.log) = c.wait - 1 /\ Numbered(c.log)
        BY <1>1, <1>5 DEF MainPoint
  <2>4. /\ Len(d.log) = c.wait /\ d.log[c.wait] = f
        /\ \A k \in 1 .. Len(c.log) : d.log[k] = c.log[k]
        BY <1>1, <2>2, <2>3 DEF f
  <2>5. \A k \in 1 .. c.wait : k # c.wait => k \in 1 .. Len(c.log)
        BY <1>1, <2>3
  <2>6. f.wait = c.wait
        BY <2>2 DEF f
  <2>7. Numbered(d.log)
        BY <2>3, <2>4, <2>5, <2>6 DEF Numbered
  <2>8. MainPoint(d)
        BY <2>2, <2>4, <2>7 DEF MainPoint
  <2>9. QED
        BY <2>8 DEF d
<1>6. CASE c.place = "poll" /\ c.byte # 0
  <2>1. c.place \in Loop /\ Leaves(sc, c) /\ c.visits = 0
        BY <1>1, <1>6 DEF Loop, Leaves, Sound
  <2>2. c.visits + 1 # VisitsBeforeInterrupt
        BY <2>1, Threshold
  <2>3. /\ d.place = "run" /\ d.wait = c.wait + 1 /\ d.log = c.log
        BY <1>6, <2>1, <2>2, ReadFacts
  <2> HIDE DEF d
  <2>4. MainPoint(d)
        BY <1>1, <1>6, <2>3 DEF MainPoint
  <2>5. QED
        BY <2>4 DEF d
<1>7. QED
      BY <1>2, <1>3, <1>4, <1>5, <1>6 DEF MainPoint

\* Every point of the course of such a program is one of its main loop.
LEMMA MainReached ==
  ASSUME NEW sc \in Seq(WaitKind), OnlyMain(sc), NEW c, Reached(sc, c)
  PROVE  MainPoint(c)
<1>1. PICK n \in Nat : \E g \in [0 .. n -> Point] : Follows(sc, g, n) /\ g[n] = c
      BY ReachedIs
<1>2. PICK g \in [0 .. n -> Point] : Follows(sc, g, n) /\ g[n] = c
      BY <1>1
<1> DEFINE G == {k \in Nat : MainPoint(g[k])}
<1>3. 0 \in G
  <2>1. MainPoint(Outset)
        BY DEF MainPoint, Outset, Numbered
  <2>2. QED
        BY <1>2, <2>1 DEF Follows
<1>4. ASSUME NEW k \in 1 .. n, k - 1 \in G PROVE k \in G
  <2>1. k \in Nat /\ k - 1 \in 0 .. n
        OBVIOUS
  <2>2. g[k - 1] \in Point /\ MainPoint(g[k - 1])
        BY <1>4, <2>1
  <2>3. g[k] = Onward(sc, g[k - 1])
        BY <1>2 DEF Follows
  <2>4. QED
        BY <2>1, <2>2, <2>3, MainOnward
<1> HIDE DEF G
<1>5. \A k \in 0 .. n : k \in G
      BY <1>3, <1>4, Inductive
<1>6. n \in G
      BY <1>5
<1>7. QED
      BY <1>2, <1>6 DEF G

\* The odd stops are at the handler, stop 2k - 1 in wait k.
OddFrames(q) ==
  \A k \in Nat : 2 * k - 1 \in 1 .. Len(q) =>
    q[2 * k - 1].place = "handler" /\ q[2 * k - 1].wait = k

\* A native machine returns at the handler and behind the wait.
Paired(m, q) ==
  /\ m.place \in {"run", "entry", "handler", "return", "changed"}
  /\ m.place \in {"handler", "return"} => m.from = "poll"
  /\ m.place \in {"run", "entry"} => Len(q) = 2 * m.wait - 2
  /\ m.place \in {"handler", "return"} => Len(q) = 2 * m.wait - 1
  /\ m.place = "changed" => Len(q) = 2 * m.wait
  /\ OddFrames(q)

PairedInv == OnlyMain(script) => \A s \in Pure("native") : Paired(machine[s], stops[s])

\* An even number of stops takes one at the handler, an odd number any.
LEMMA OddAppend ==
  ASSUME NEW q \in Seq(Stop), NEW r \in Stop, OddFrames(q), NEW w \in Nat \ {0},
         \/ Len(q) = 2 * w - 2 /\ r.place = "handler" /\ r.wait = w
         \/ Len(q) = 2 * w - 1
  PROVE  OddFrames(Append(q, r)) /\ Len(Append(q, r)) = Len(q) + 1
<1> DEFINE p == Append(q, r)
           n == Len(q)
<1>1. /\ n \in Nat /\ Len(p) = n + 1 /\ p[n + 1] = r
      /\ \A k \in 1 .. n : p[k] = q[k]
      OBVIOUS
<1>2. \/ n = 2 * w - 2 /\ r.place = "handler" /\ r.wait = w
      \/ n = 2 * w - 1
      OBVIOUS
<1>3. \A k \in Nat : 2 * k - 1 \in 1 .. n => q[2 * k - 1].place = "handler" /\ q[2 * k - 1].wait = k
      BY DEF OddFrames
<1> HIDE DEF p, n
<1>4. ASSUME NEW k \in Nat, 2 * k - 1 \in 1 .. n + 1
      PROVE  p[2 * k - 1].place = "handler" /\ p[2 * k - 1].wait = k
  <2>1. CASE 2 * k - 1 = n + 1
    <3>1. k = w /\ r.place = "handler" /\ r.wait = w
          BY <1>1, <1>2, <2>1
    <3>2. QED
          BY <1>1, <2>1, <3>1
  <2>2. CASE 2 * k - 1 # n + 1
    <3>1. 2 * k - 1 \in 1 .. n
          BY <1>1, <1>4, <2>2
    <3>2. QED
          BY <1>1, <1>3, <3>1
  <2>3. QED
        BY <2>1, <2>2
<1>5. QED
      BY <1>1, <1>4 DEF OddFrames, p, n

\* Each block returns at the handler or behind the wait, in turn.
LEMMA NativeStepPaired ==
  ASSUME TypeOK, NEW s \in Session, NativeInv(s), OnlyMain(script),
         Paired(machine[s], stops[s]), Step(s)
  PROVE  Paired(machine'[s], stops'[s])
<1> DEFINE m == machine[s]
           q == stops[s]
<1>1. m \in Machine /\ m.wait \in Nat \ {0} /\ q \in Seq(Stop) /\ script \in Seq(WaitKind)
      BY ScriptType, MachineFacts DEF TypeOK
<1>2. Running(s) /\ call[s] = "native"
      BY DEF NativeInv, Step, NativeToWait, NativeTextureEntry, NativeMainPoll, NativePendingBlank,
         NativeEarlyPoll, NativeTexturePoll, NativeHandler, NativeReturn,
         NativeTimerSuffix, OracleIterate, InNative
<1>3. script[m.wait] = "main"
  <2>1. ~ (m.wait > Len(script)) /\ Len(script) \in Nat
        BY <1>1, <1>2 DEF Running, Ended
  <2>2. m.wait \in 1 .. Len(script)
        BY <1>1, <2>1
  <2>3. QED
        BY <2>2 DEF OnlyMain
<1>4. PICK c \in Point : Tracks(m, c)
      BY DEF NativeInv
<1>5. "native" \in Stepper
      BY DEF Stepper
<1> HIDE DEF m
<1>6. ASSUME NEW i \in Machine, Returns(s, i),
             \/ Len(q) = 2 * i.wait - 2 /\ i.place = "handler" /\ i.from = "poll"
             \/ Len(q) = 2 * i.wait - 1 /\ i.place = "changed"
      PROVE  Paired(machine'[s], stops'[s])
  <2> DEFINE r == StopOf(call[s], i)
  <2>1. machine'[s] = i /\ stops'[s] = Append(q, r)
        BY <1>6, ReturnsStop
  <2>2. r \in Stop /\ r.place = i.place /\ r.wait = i.wait
        BY <1>2, <1>5, StopOfType
  <2>3. i.wait \in Nat \ {0} /\ OddFrames(q) /\ Len(q) \in Nat
        BY <1>1, MachineFacts DEF Paired
  <2> HIDE DEF r, q
  <2>4. OddFrames(Append(q, r)) /\ Len(Append(q, r)) = Len(q) + 1
    <3>1. \/ Len(q) = 2 * i.wait - 2 /\ r.place = "handler" /\ r.wait = i.wait
          \/ Len(q) = 2 * i.wait - 1
          BY <1>6, <2>2
    <3>2. q \in Seq(Stop)
          BY <1>1
    <3>3. QED
          BY <2>2, <2>3, <3>1, <3>2, OddAppend
  <2> DEFINE p == Append(q, r)
  <2>5. Len(p) = Len(q) + 1 /\ OddFrames(p) /\ machine'[s] = i /\ stops'[s] = p
        BY <2>1, <2>4
  <2> HIDE DEF p
  <2>6. Paired(i, p)
    <3>1. \/ Len(p) = 2 * i.wait - 1 /\ i.place = "handler" /\ i.from = "poll"
          \/ Len(p) = 2 * i.wait /\ i.place = "changed"
          BY <1>6, <2>3, <2>5
    <3>2. OddFrames(p)
          BY <2>5
    <3>3. QED
          BY <3>1, <3>2 DEF Paired
  <2>7. QED
        BY <2>5, <2>6
<1>7. ASSUME NEW i \in Machine, Continues(s, i), Paired(i, q)
      PROVE  Paired(machine'[s], stops'[s])
      BY <1>7 DEF Continues, TypeOK
<1>8. ASSUME Refuses(s, m)
      PROVE  Paired(machine'[s], stops'[s])
      BY <1>8 DEF Refuses, TypeOK, m
<1>9. Paired(m, q)
      BY DEF m
<1> HIDE DEF q
<1>10. CASE NativeToWait(s)
  <2>1. m.place = "run" /\ (Refuses(s, m) \/ Continues(s, AtWait(m)))
        BY <1>10 DEF NativeToWait, InNative, m
  <2>2. /\ AtWait(m) \in Machine /\ AtWait(m).place = "entry" /\ AtWait(m).wait = m.wait
        BY <1>1, <1>3, AtWaitIs
  <2> DEFINE i == AtWait(m)
  <2>3. i \in Machine /\ i.place = "entry" /\ i.wait = m.wait
        BY <2>2
  <2> HIDE DEF i
  <2>4. Paired(i, q)
        BY <1>9, <2>1, <2>3 DEF Paired
  <2>5. QED
        BY <1>7, <1>8, <2>1, <2>3, <2>4 DEF i
<1>11. CASE NativeTextureEntry(s)
       BY <1>3, <1>11 DEF NativeTextureEntry, m
<1>12. CASE NativeMainPoll(s)
  <2> DEFINE b == [m EXCEPT !.place = "poll", !.seen = m.byte]
             n == VisitsBeforeInterrupt - PhaseSeed(m) - 1
             i == PollToInterrupt(b, n)
  <2>1. m.place = "entry" /\ Returns(s, i)
        BY <1>12 DEF NativeMainPoll, InNative, m
  <2>2. b \in Machine /\ b.place = "poll" /\ b.wait = m.wait
        BY <1>1, PollEntryIs
  <2>3. n \in Nat
        BY <1>1, VisitsLeft
  <2> HIDE DEF b, n
  <2>4. b.place \in Loop
        BY <2>2 DEF Loop
  <2>5. i \in Machine /\ i.place = "handler" /\ i.from = "poll" /\ i.wait = m.wait
        BY <2>2, <2>3, <2>4, PollToInterruptIs
  <2> HIDE DEF i
  <2>6. Len(q) = 2 * i.wait - 2
        BY <1>9, <2>1, <2>5 DEF Paired
  <2>7. QED
        BY <1>6, <2>1, <2>5, <2>6
<1>13. CASE NativePendingBlank(s) \/ NativeEarlyPoll(s) \/ NativeTexturePoll(s)
  <2>1. m.place \in {"early", "texture"}
        BY <1>13 DEF NativePendingBlank, NativeEarlyPoll, NativeTexturePoll, InNative, m
  <2>2. QED
        BY <1>9, <2>1 DEF Paired
<1>14. CASE NativeHandler(s)
  <2>1. m.place = "handler" /\ Continues(s, Handled(m))
        BY <1>14 DEF NativeHandler, InNative, m
  <2> DEFINE i == Handled(m)
  <2>2. m.byte \in 0 .. 1
    <3>1. m.byte = c.byte /\ c.place = "handler" /\ c.byte # 2
          BY <1>4, <2>1, PointFacts DEF Tracks, NativeAt, Sound, Loop
    <3>2. QED
          BY <3>1, PointFacts
  <2>3. i \in Machine /\ i.place = "return" /\ i.from = m.from /\ i.wait = m.wait
        BY <1>1, <2>2, HandledIs
  <2> HIDE DEF i
  <2>4. Paired(i, q)
        BY <1>9, <2>1, <2>3 DEF Paired
  <2>5. QED
        BY <1>7, <2>1, <2>3, <2>4 DEF i
<1>15. CASE NativeReturn(s)
  <2> DEFINE o == Observe([m EXCEPT !.place = m.from], "native")
             i == [Polled(o, 1) EXCEPT !.place = "changed"]
  <2>1. /\ m.place = "return"
        /\ \/ o.place \in {"early", "texture"} /\ Returns(s, o)
           \/ o.place = "poll" /\ m.byte # m.seen /\ Returns(s, i)
           \/ (o.place = "handler" \/ (o.place = "poll" /\ m.byte = m.seen))
                /\ Refuses(s, o)
        BY <1>15 DEF NativeReturn, InNative, m
  <2>2. m.from = "poll"
        BY <1>9, <2>1 DEF Paired
  <2>3. o.place = "poll" /\ m.byte # m.seen
        BY <1>1, <1>4, <2>1, <2>2, ReturnTracks
  <2>4. Returns(s, i)
        BY <2>1, <2>3
  <2>5. o \in Machine /\ o.wait = m.wait
    <3> DEFINE b == [m EXCEPT !.place = m.from]
    <3>1. m.from \in Place /\ m.from \in Loop
          BY <2>2 DEF Place, Loop
    <3>2. b \in Machine /\ b.place \in Loop /\ b.wait = m.wait /\ b.visits = m.visits
          BY <1>1, <3>1, PlacedIs
    <3>3. m.visits["native"] = 0
          BY <1>4, <2>1 DEF Tracks, NativeAt, Loop
    <3> HIDE DEF b
    <3>4. b.visits["native"] + 1 < VisitsBeforeInterrupt
          BY <3>2, <3>3, Threshold
    <3>5. Observe(b, "native") \in Machine /\ Observe(b, "native").wait = b.wait
          BY <1>5, <3>2, <3>4, VisitedIs
    <3>6. QED
          BY <3>2, <3>5 DEF b
  <2>6. i \in Machine /\ i.place = "changed" /\ i.wait = m.wait
    <3> HIDE DEF o
    <3> DEFINE p == Polled(o, 1)
    <3>1. p \in Machine /\ p.wait = m.wait
          BY <2>5, PolledIs
    <3> HIDE DEF p
    <3>2. "changed" \in Place
          BY DEF Place
    <3>3. [p EXCEPT !.place = "changed"] \in Machine
          /\ [p EXCEPT !.place = "changed"].place = "changed"
          /\ [p EXCEPT !.place = "changed"].wait = m.wait
          BY <3>1, <3>2, PlacedIs
    <3>4. QED
          BY <3>3 DEF p
  <2> HIDE DEF o, i
  <2>7. Len(q) = 2 * i.wait - 1
        BY <1>9, <2>1, <2>6 DEF Paired
  <2>8. QED
        BY <1>6, <2>4, <2>6, <2>7
<1>16. CASE NativeTimerSuffix(s)
  <2> DEFINE z == [m EXCEPT !.byte = 0]
             i == WaitOver(z)
  <2>1. m.place = "changed" /\ (Refuses(s, m) \/ Continues(s, i))
        BY <1>16 DEF NativeTimerSuffix, InNative, m
  <2>2. z \in Machine /\ z.wait = m.wait
        BY <1>1, ZeroedIs
  <2> HIDE DEF z
  <2>3. i \in Machine /\ i.place = "run" /\ i.wait = m.wait + 1
        BY <2>2, WaitOverIs
  <2> HIDE DEF i
  <2>4. Paired(i, q)
        BY <1>1, <1>9, <2>1, <2>3 DEF Paired
  <2>5. QED
        BY <1>7, <1>8, <2>1, <2>3, <2>4
<1>17. CASE OracleIterate(s)
       BY <1>2, <1>17 DEF OracleIterate
<1>18. QED
       BY <1>10, <1>11, <1>12, <1>13, <1>14, <1>15, <1>16, <1>17 DEF Step

LEMMA PairedInvariance == Spec => [](IInv /\ AgreeInv /\ PairedInv)
<1>1. Init => IInv /\ AgreeInv /\ PairedInv
  <2> SUFFICES ASSUME Init PROVE PairedInv
      BY InitIInv, InitAgrees
  <2>1. ASSUME NEW s \in Session PROVE Paired(machine[s], stops[s])
    <3>1. machine[s] = Start /\ stops[s] = <<>>
          BY <2>1 DEF Init
    <3>2. Start.place = "run" /\ Start.wait = 1
          BY DEF Start
    <3>3. OddFrames(<<>>)
          BY DEF OddFrames
    <3>4. QED
          BY <3>1, <3>2, <3>3 DEF Paired
  <2>2. QED
        BY <2>1 DEF PairedInv, Pure
<1>2. IInv /\ AgreeInv /\ PairedInv /\ [Next]_vars => (IInv /\ AgreeInv /\ PairedInv)'
  <2> SUFFICES ASSUME IInv, AgreeInv, PairedInv, [Next]_vars PROVE PairedInv'
      BY NextIInv, NextAgrees
  <2>1. TypeOK
        BY DEF IInv
  <2>2. script' = script
    <3>1. ASSUME NEW s \in Session, Step(s) PROVE script' = script
          BY <2>1, <3>1, StepFrame
    <3>2. ASSUME NEW s \in Session, NEW w \in Stepper, BeginCall(s, w) PROVE script' = script
          BY <3>2 DEF BeginCall
    <3>3. QED
          BY <3>1, <3>2 DEF Next, vars
  <2>3. SUFFICES ASSUME OnlyMain(script), NEW t \in Pure("native")
                 PROVE  Paired(machine'[t], stops'[t])
        BY <2>2 DEF PairedInv, Pure, Session
  <2>4. t \in Session /\ NativeInv(t) /\ Paired(machine[t], stops[t])
        BY <2>3 DEF AgreeInv, Agrees, PairedInv, Pure
  <2>5. CASE UNCHANGED vars
        BY <2>4, <2>5 DEF vars
  <2>6. ASSUME NEW s \in Session, Step(s) PROVE Paired(machine'[t], stops'[t])
    <3>1. CASE s = t
          BY <2>1, <2>3, <2>4, <2>6, <3>1, NativeStepPaired
    <3>2. CASE s # t
          BY <2>1, <2>4, <2>6, <3>2, StepFrame
    <3>3. QED
          BY <3>1, <3>2
  <2>7. ASSUME NEW s \in Session, NEW w \in Stepper, BeginCall(s, w)
        PROVE  Paired(machine'[t], stops'[t])
        BY <2>4, <2>7 DEF BeginCall
  <2>8. QED
        BY <2>5, <2>6, <2>7 DEF Next
<1>3. QED
      BY <1>1, <1>2, PTL DEF Spec

LEMMA PairedInvOdd == TypeOK /\ AgreeInv /\ PairedInv => OddStopsAgree
<1> SUFFICES ASSUME TypeOK, AgreeInv, PairedInv, OnlyMain(script),
                    NEW s \in Pure("native"), NEW t \in Pure("oracle"),
                    NEW k \in 1 .. Len(stops[t]), 2 * k - 1 <= Len(stops[s])
             PROVE  /\ stops[s][2 * k - 1].place = "handler"
                    /\ stops[s][2 * k - 1].wait = stops[t][k].wait
    BY DEF OddStopsAgree, OnlyMain
<1>1. s \in Session /\ t \in Session /\ script \in Seq(WaitKind)
      BY ScriptType DEF Pure
<1>2. OddFrames(stops[s])
      BY DEF PairedInv, Paired
<1>3. Len(stops[s]) \in Nat /\ Len(stops[t]) \in Nat
      BY <1>1 DEF TypeOK
<1>4. k \in Nat /\ 2 * k - 1 \in 1 .. Len(stops[s])
      BY <1>3
<1>5. stops[s][2 * k - 1].place = "handler" /\ stops[s][2 * k - 1].wait = k
      BY <1>2, <1>4 DEF OddFrames
<1>6. OracleInv(t)
      BY <1>1 DEF AgreeInv, Agrees
<1>7. PICK d \in Point : Reached(script, d) /\ OracleLog(stops[t], d.log)
      BY <1>6 DEF OracleInv
<1>8. Numbered(d.log)
      BY <1>1, <1>7, MainReached DEF MainPoint
<1>9. k \in 1 .. Len(d.log)
      BY <1>7 DEF OracleLog
<1>10. stops[t][k].wait = d.log[k].wait
       BY <1>7, <1>9 DEF OracleLog, IsFrame
<1>11. QED
       BY <1>5, <1>8, <1>9, <1>10 DEF Numbered

\* In a program that only waits in the main loop, frame k of the oracle is stop
\* 2k - 1 of the native runtime, which docs/NATIVE_WINDOWS_PLAN.md:144 measured
\* over 3,600 frames.
THEOREM OddStopsAlike == Spec => []OddStopsAgree
<1>1. IInv /\ AgreeInv /\ PairedInv => OddStopsAgree
      BY PairedInvOdd DEF IInv
<1>2. QED
      BY <1>1, PairedInvariance, PTL
===============================================================================
