---------------------------- MODULE SessionProofs ----------------------------
(***************************************************************************)
(* Theorems about Session, for any number of requests, scopes and frames,  *)
(* any capacity of the queue and any set of modes, kinds and decisions.    *)
(* The invariant has three parts that lean on one another in this order:   *)
(* the connection, its requests one by one, and the rules they leave.      *)
(***************************************************************************)
EXTENDS Session, SequenceTheorems, TLAPS

USE SessionAssumption

-----------------------------------------------------------------------------
(* The connection: reader, queue, loop and latch.                          *)

\* The reader has a frame in its hand while it is at work on one.
ReaderHolds ==
  /\ reader.pc = "handle" => reader.frame \in Frame
  /\ reader.pc = "forward" => reader.frame \in Queued

LoopType ==
  [pc : {"idle", "prepare", "bound", "turn", "gone"},
   bound : BOOLEAN, cancelled : BOOLEAN, plan : BOOLEAN]
ReaderType == [pc : {"read", "handle", "forward", "gone"}, frame : Frame \cup {None}]
WatchType == [consecutive : Nat, latched : BOOLEAN]

\* The timers that expired in a row are among those that expired in silence.
ExpiriesCounted ==
  /\ watch.consecutive <= silence
  /\ LatchMeansSilence

ConnTyped ==
  /\ mode \in Mode /\ chosen \in Mode
  /\ reader \in ReaderType /\ ReaderHolds
  /\ queue \in Seq(Queued) /\ Len(queue) <= QueueCap
  /\ loop \in LoopType
  /\ watch \in WatchType /\ silence \in Nat /\ ExpiriesCounted
  /\ connected \in BOOLEAN
  /\ read \in 0..MaxFrames

connVars == <<mode, chosen, reader, queue, loop, watch, silence, connected, read>>

LEMMA ConnInit == Init => ConnTyped
BY EmptySeq DEF Init, ConnTyped, ReaderType, ReaderHolds, LoopType, WatchType,
      ExpiriesCounted, LatchMeansSilence

\* What the reader does with the frame in its hand, the queue aside.
LEMMA ReaderKeepsTypes ==
  ASSUME ConnTyped,
         \/ HandleCancel \/ HandleAnswer \/ HandleSetMode \/ HandleMessage
  PROVE  ConnTyped'
<1>1. CASE HandleCancel
  BY <1>1 DEF ConnTyped, HandleCancel, ReadOn, ReaderType, ReaderHolds, LoopType,
       ExpiriesCounted, LatchMeansSilence
<1>2. CASE HandleAnswer
  BY <1>2 DEF ConnTyped, HandleAnswer, ReadOn, ReaderType, ReaderHolds,
       ExpiriesCounted, LatchMeansSilence
<1>3. CASE HandleSetMode
  <2>1. reader.frame \in [t : {"set_mode"}, mode : Mode]
    BY <1>3 DEF HandleSetMode, ConnTyped, ReaderHolds, Frame
  <2> QED BY <1>3, <2>1 DEF ConnTyped, HandleSetMode, ReaderType, ReaderHolds, Queued,
       ExpiriesCounted, LatchMeansSilence
<1>4. CASE HandleMessage
  <2>1. reader.frame \in [t : {"message"}]
    BY <1>4 DEF HandleMessage, ConnTyped, ReaderHolds, Frame
  <2> QED BY <1>4, <2>1 DEF ConnTyped, HandleMessage, ReaderType, ReaderHolds, Queued,
       ExpiriesCounted, LatchMeansSilence
<1> QED BY <1>1, <1>2, <1>3, <1>4

\* The queue.
LEMMA QueueKeepsTypes ==
  ASSUME ConnTyped, Forward \/ LoopSetMode \/ TakeMessage
  PROVE  ConnTyped'
<1>1. CASE Forward
  <2>1. /\ queue' \in Seq(Queued) /\ Len(queue') = Len(queue) + 1
    BY <1>1, AppendProperties DEF Forward, ConnTyped, ReaderHolds
  <2>2. Len(queue') <= QueueCap
    BY <1>1, <2>1, LenProperties DEF Forward, ConnTyped
  <2> QED BY <1>1, <2>1, <2>2 DEF ConnTyped, Forward, ReadOn, ReaderType, ReaderHolds,
       ExpiriesCounted, LatchMeansSilence
<1>2. CASE LoopSetMode \/ TakeMessage
  <2>1. /\ queue \in Seq(Queued) /\ queue # <<>> /\ queue' = Tail(queue)
    BY <1>2 DEF LoopSetMode, TakeMessage, ConnTyped
  <2>2. /\ Head(queue) \in Queued /\ queue' \in Seq(Queued) /\ Len(queue') = Len(queue) - 1
    BY <2>1, HeadTailProperties
  <2>3. Len(queue') <= QueueCap
    BY <2>1, <2>2, LenProperties DEF ConnTyped
  <2>4. CASE LoopSetMode
    <3>1. Head(queue).mode \in Mode
      BY <2>2, <2>4 DEF LoopSetMode, Queued
    <3> QED BY <2>2, <2>3, <2>4, <3>1 DEF ConnTyped, LoopSetMode, ReaderHolds,
       ExpiriesCounted, LatchMeansSilence
  <2>5. CASE TakeMessage
    BY <2>2, <2>3, <2>5 DEF ConnTyped, TakeMessage, ReaderHolds, LoopType,
       ExpiriesCounted, LatchMeansSilence
  <2> QED BY <1>2, <2>4, <2>5
<1> QED BY <1>1, <1>2

\* The client, and the turn.
LEMMA TurnKeepsTypes ==
  ASSUME ConnTyped, Client \/ BindTurn \/ StartTurn \/ EndTurn \/ LoopReturns
  PROVE  ConnTyped'
<1>1. ASSUME NEW f \in Frame, ReadFrame(f) PROVE ConnTyped'
  BY <1>1 DEF ConnTyped, ReadFrame, Attended, ReaderType, ReaderHolds, WatchType,
       ExpiriesCounted, LatchMeansSilence
<1>2. CASE Disconnect
  BY <1>2 DEF ConnTyped, Disconnect, ReaderType, ReaderHolds, LoopType,
       ExpiriesCounted, LatchMeansSilence
<1>3. CASE BindTurn \/ StartTurn \/ EndTurn \/ LoopReturns
  <2>1. CASE BindTurn
    BY <2>1 DEF ConnTyped, LoopType, BindTurn, ReaderHolds, ExpiriesCounted, LatchMeansSilence
  <2>2. CASE StartTurn
    BY <2>2 DEF ConnTyped, LoopType, StartTurn, ReaderHolds, ExpiriesCounted, LatchMeansSilence
  <2>3. CASE EndTurn
    <3>1. /\ loop' = [pc |-> "idle", bound |-> FALSE, cancelled |-> FALSE, plan |-> FALSE]
          /\ UNCHANGED <<mode, chosen, reader, queue, watch, silence, connected, read>>
      BY <2>3 DEF EndTurn
    <3> QED BY <3>1 DEF ConnTyped, LoopType, ReaderHolds, ExpiriesCounted, LatchMeansSilence
  <2>4. CASE LoopReturns
    BY <2>4 DEF ConnTyped, LoopType, LoopReturns, ReaderHolds, ExpiriesCounted, LatchMeansSilence
  <2> QED BY <1>3, <2>1, <2>2, <2>3, <2>4
<1> QED BY <1>1, <1>2, <1>3 DEF Client

\* A request: only an answer or a timer touches the connection.
LEMMA RequestsKeepTypes ==
  ASSUME ConnTyped, NEW r \in Request,
         RequestStep(r) \/ \E k \in Kind, s \in Scope : Begin(r, k, s)
  PROVE  ConnTyped'
<1>1. CASE TakeAnswer(r)
  <2>1. /\ watch' = [consecutive |-> 0, latched |-> FALSE]
        /\ UNCHANGED <<mode, chosen, reader, queue, loop, silence, connected, read>>
    BY <1>1 DEF TakeAnswer, Attended
  <2> QED BY <2>1 DEF ConnTyped, ReaderHolds, WatchType, ExpiriesCounted, LatchMeansSilence
<1>2. CASE Expire(r)
  BY <1>2 DEF ConnTyped, Expire, ReaderHolds, WatchType,
       ExpiriesCounted, LatchMeansSilence
<1>3. CASE UNCHANGED connVars
  BY <1>3 DEF connVars, ConnTyped, ReaderHolds, ExpiriesCounted, LatchMeansSilence
<1>4. \/ TakeAnswer(r) \/ Expire(r) \/ UNCHANGED connVars
  BY DEF RequestStep, Match, Gate, Assess, Ask, Await, Abort, Record, Begin, connVars
<1> QED BY <1>1, <1>2, <1>3, <1>4

LEMMA ConnStep == ConnTyped /\ [Next]_vars => ConnTyped'
<1> SUFFICES ASSUME ConnTyped, [Next]_vars PROVE ConnTyped'
  OBVIOUS
<1>1. CASE ReaderStep
  BY <1>1, ReaderKeepsTypes, QueueKeepsTypes DEF ReaderStep
<1>2. CASE Client \/ LoopStep
  BY <1>2, TurnKeepsTypes, QueueKeepsTypes DEF LoopStep
<1>3. ASSUME NEW r \in Request,
             RequestStep(r) \/ \E k \in Kind, s \in Scope : Begin(r, k, s)
      PROVE  ConnTyped'
  BY <1>3, RequestsKeepTypes
<1>4. CASE Withdraw \/ UNCHANGED vars
  BY <1>4 DEF Withdraw, vars, ConnTyped, ReaderHolds, ExpiriesCounted, LatchMeansSilence
<1> QED BY <1>1, <1>2, <1>3, <1>4 DEF Next

\* A connection that is latched has seen that many prompts expire without a
\* frame of any kind in between (unattendedState).
THEOREM LatchIsSilence == Spec => []LatchMeansSilence
<1>1. ConnTyped => LatchMeansSilence
  BY DEF ConnTyped, ExpiriesCounted
<1> QED BY <1>1, ConnInit, ConnStep, PTL DEF Spec
-----------------------------------------------------------------------------
(* The mode.                                                               *)

\* A switch of mode the reader has applied and not queued yet, and the last
\* of those that are queued.
InHand == reader.pc = "forward" /\ reader.frame.t = "set_mode"
Switches == {i \in 1..Len(queue) : queue[i].t = "set_mode"}
LastSwitch(i) == i \in Switches /\ \A j \in Switches : j <= i

\* The switch that is queued last is to the mode chosen last, so the main loop,
\* which applies them again in their order, ends with it.
LastIsChosen ==
  /\ InHand => reader.frame.mode = chosen
  /\ ~InHand => \A i \in Switches : LastSwitch(i) => queue[i].mode = chosen
  /\ ~InHand /\ Switches = {} => mode = chosen

\* Steps that touch neither the modes nor the queue, and keep hands empty.
LEMMA EmptyHanded ==
  ASSUME LastIsChosen, ~InHand, ~InHand', UNCHANGED <<mode, chosen, queue>>
  PROVE  LastIsChosen'
BY DEF LastIsChosen, Switches, LastSwitch

LEMMA ForwardKeepsLast ==
  ASSUME ConnTyped, LastIsChosen, Forward
  PROVE  LastIsChosen'
<1>1. /\ queue \in Seq(Queued) /\ reader.frame \in Queued
      /\ queue' = Append(queue, reader.frame)
      /\ UNCHANGED <<mode, chosen>> /\ ~InHand'
  BY DEF ConnTyped, ReaderHolds, Forward, ReadOn, InHand
<1> DEFINE n == Len(queue) + 1
<1>2. /\ Len(queue) \in Nat /\ Len(queue') = n
      /\ \A i \in 1..Len(queue) : queue'[i] = queue[i]
      /\ queue'[n] = reader.frame
  BY <1>1, AppendProperties, LenProperties
<1>3. CASE InHand
  <2>1. n \in Switches' /\ \A j \in Switches' : j <= n
    BY <1>2, <1>3 DEF InHand, Switches
  <2>2. \A i \in Switches' : LastSwitch(i)' => i = n
    BY <2>1, <1>2 DEF LastSwitch, Switches
  <2> QED BY <1>1, <1>2, <1>3, <2>1, <2>2 DEF LastIsChosen
<1>4. CASE ~InHand
  <2>1. reader.frame.t # "set_mode"
    BY <1>4 DEF InHand, Forward
  <2>2. Switches' = Switches
    BY <1>2, <2>1 DEF Switches
  <2>3. \A i \in Switches : queue'[i] = queue[i]
    BY <1>2 DEF Switches
  <2> QED BY <1>1, <1>4, <2>2, <2>3 DEF LastIsChosen, LastSwitch
<1> QED BY <1>3, <1>4

LEMMA LoopKeepsLast ==
  ASSUME ConnTyped, LastIsChosen, LoopSetMode \/ TakeMessage
  PROVE  LastIsChosen'
<1>1. /\ queue \in Seq(Queued) /\ queue # <<>> /\ queue' = Tail(queue)
      /\ UNCHANGED <<reader, chosen>>
  BY DEF ConnTyped, LoopSetMode, TakeMessage
<1>2. /\ Len(queue) \in Nat /\ Len(queue') = Len(queue) - 1
      /\ Head(queue) = queue[1] /\ 1 \in 1..Len(queue)
      /\ \A i \in 1..Len(queue') : queue'[i] = queue[i + 1]
  BY <1>1, HeadTailProperties, LenProperties, EmptySeq
<1>3. CASE InHand
  BY <1>1, <1>3 DEF LastIsChosen, InHand
<1>4. CASE ~InHand
  <2>1. \A i : i \in Switches' <=> (i \in Nat /\ i # 0 /\ i + 1 \in Switches)
    BY <1>2 DEF Switches
  <2>2. \A j \in Switches : j = 1 \/ (j - 1 \in Switches' /\ j - 1 + 1 = j)
    BY <1>2 DEF Switches
  <2>3. ASSUME NEW i \in Switches', LastSwitch(i)' PROVE queue'[i].mode = chosen'
    <3>1. i + 1 \in Switches /\ i \in Nat /\ i # 0
      BY <2>1, <2>3
    <3>2. ASSUME NEW j \in Switches PROVE j <= i + 1
      BY <2>2, <2>3, <3>1 DEF LastSwitch, Switches
    <3> QED BY <1>1, <1>2, <1>4, <2>3, <3>1, <3>2 DEF LastIsChosen, LastSwitch, Switches
  <2>4. ASSUME Switches' = {} PROVE mode' = chosen'
    <3>1. \A j \in Switches : j = 1
      BY <2>2, <2>4
    <3>2. CASE LoopSetMode
      <4>1. 1 \in Switches /\ mode' = queue[1].mode
        BY <3>2, <1>2 DEF LoopSetMode, Switches
      <4> QED BY <1>1, <1>4, <3>1, <4>1 DEF LastIsChosen, LastSwitch
    <3>3. CASE TakeMessage
      <4>1. 1 \notin Switches /\ mode' = mode
        BY <3>3, <1>2 DEF TakeMessage, Switches
      <4> QED BY <1>1, <1>4, <3>1, <4>1 DEF LastIsChosen
    <3> QED BY <3>2, <3>3
  <2>5. ~InHand'
    BY <1>1, <1>4 DEF InHand
  <2> QED BY <2>3, <2>4, <2>5 DEF LastIsChosen
<1> QED BY <1>3, <1>4

LEMMA ModeStep == ConnTyped /\ LastIsChosen /\ [Next]_vars => LastIsChosen'
<1> SUFFICES ASSUME ConnTyped, LastIsChosen, [Next]_vars PROVE LastIsChosen'
  OBVIOUS
<1>1. CASE HandleCancel \/ HandleAnswer \/ Client
  <2>1. ~InHand /\ ~InHand' /\ UNCHANGED <<mode, chosen, queue>>
    BY <1>1 DEF HandleCancel, HandleAnswer, Client, ReadFrame, Disconnect, ReadOn, InHand
  <2> QED BY <2>1, EmptyHanded
<1>2. CASE HandleMessage
  <2>1. ~InHand /\ ~InHand' /\ UNCHANGED <<mode, chosen, queue>>
    BY <1>2 DEF HandleMessage, InHand, ConnTyped, ReaderType
  <2> QED BY <2>1, EmptyHanded
<1>3. CASE HandleSetMode
  <2>1. InHand' /\ reader'.frame.mode = chosen'
    BY <1>3 DEF HandleSetMode, InHand, ConnTyped, ReaderType
  <2> QED BY <2>1 DEF LastIsChosen
<1>4. CASE Forward \/ LoopSetMode \/ TakeMessage
  BY <1>4, ForwardKeepsLast, LoopKeepsLast
<1>5. CASE UNCHANGED <<mode, chosen, queue, reader>>
  BY <1>5 DEF LastIsChosen, Switches, LastSwitch, InHand
<1>6. ASSUME NEW r \in Request, RequestStep(r) \/ \E k \in Kind, s \in Scope : Begin(r, k, s)
      PROVE  UNCHANGED <<mode, chosen, queue, reader>>
  BY <1>6 DEF RequestStep, Match, Gate, Assess, Ask, Await, TakeAnswer, Abort, Expire,
       Record, Begin
<1>7. CASE BindTurn \/ StartTurn \/ EndTurn \/ LoopReturns \/ Withdraw \/ UNCHANGED vars
  BY <1>5, <1>7 DEF BindTurn, StartTurn, EndTurn, LoopReturns, Withdraw, vars
<1> QED BY <1>1, <1>2, <1>3, <1>4, <1>5, <1>6, <1>7 DEF Next, ReaderStep, LoopStep

LEMMA ModeInit == Init => LastIsChosen
BY DEF Init, LastIsChosen, InHand, Switches

\* Once no switch is under way the mode in force is the last one the client
\* chose, although the main loop applies old switches again.
THEOREM ModesSettle == Spec => []ModeSettles
<1>1. LastIsChosen => ModeSettles
  BY DEF LastIsChosen, ModeSettles, InHand, Switches
<1>2. ConnTyped /\ LastIsChosen /\ [Next]_vars => (ConnTyped /\ LastIsChosen)'
  BY ConnStep, ModeStep
<1>3. Init => ConnTyped /\ LastIsChosen
  BY ConnInit, ModeInit
<1> QED BY <1>1, <1>2, <1>3, PTL DEF Spec
-----------------------------------------------------------------------------
(* A request, by itself.                                                   *)

Waiting == {"asked", "wait"}
Granted == {"record", "allowed"}

\* An answer kept to what was denied is one of those that count.
Counts(q) == q.said = "allow" => q.saidIn \in {q.asked, "yolo"}

\* What must always be asked about is: no rule and no model's judgement is
\* consulted on the way to the prompt, and a yes lets it through.
AskedAbout(q) ==
  /\ q.pc \in {"match", "assess"} \/ q.declined => q.kind \notin AskedAlways
  /\ q.pc \in Granted /\ (q.kind \in AskedAlways \/ q.via = "answer") => q.said \in Yes

\* An answer that is kept for a request is the client's, or a refusal.
Answered(q) ==
  q.chan # None => /\ q.pc \in Waiting
                   /\ q.said \in Decision /\ q.chan \in {q.said, "deny"}
                   /\ q.kind = "denied" /\ q.chan = "allow" => Counts(q)

\* What the profile denies comes to a prompt only over the model's refusal.
Denied(q) ==
  q.kind = "denied" =>
    /\ q.pc \in {"ask"} \cup Waiting => q.declined
    /\ q.pc \in Granted /\ q.via = "answer" => q.declined /\ Counts(q)

\* Only requests that may leave a rule come to record one; a plan turn's
\* requests read; a request that a rule let through is over.
Meant(q) == /\ q.pc = "record" => q.kind \notin {"forced", "mandatory"}
            /\ q.declined => q.pc \in {"ask", "allowed"} \cup Waiting
            /\ q.plan => q.kind = "read"
            /\ q.rule # None => q.pc = "allowed"

Sound(q) == AskedAbout(q) /\ Answered(q) /\ Denied(q) /\ Meant(q)

Settled == {"allowed", "refused"}

ReqTyped ==
  /\ req \in [Request -> RequestType]
  /\ \A r \in Request : Sound(req[r])
  /\ pending \subseteq {r \in Request : req[r].pc \in Waiting /\ req[r].chan = None}

\* A step of one request, which was not over, or of none.
OneRequest(r, q) ==
  /\ req' = [req EXCEPT ![r] = q]
  /\ q \in RequestType /\ Sound(q)
  /\ req[r].pc \notin Settled
  /\ pending' \ {r} \subseteq pending
  /\ r \in pending' => q.pc \in Waiting /\ q.chan = None

LEMMA NewIsSound ==
  /\ NewRequest \in RequestType
  /\ Sound(NewRequest)
  /\ NewRequest.chan = None /\ NewRequest.plan = FALSE /\ NewRequest.declined = FALSE
  /\ NewRequest.rule = None /\ NewRequest.kind = None /\ NewRequest.pc = "unborn"
BY DEF NewRequest, RequestType, Sound, AskedAbout, Answered, Denied, Meant, TTL, Over,
     AskedAlways, Waiting, Granted, AllDecisions, AllModes, Grounds

LEMMA ReqInit == Init => ReqTyped
BY NewIsSound DEF Init, ReqTyped, NewRequest

\* A refused request.
LEMMA RefusedIsSound ==
  ASSUME ReqTyped, NEW r \in Request, Refuse(r), req[r].pc \notin Settled,
         pending' = pending \ {r}
  PROVE  \E q : OneRequest(r, q) /\ q.rule = None
<1> DEFINE q == [NewRequest EXCEPT !.pc = "refused", !.asked = req[r].asked]
<1>1. req' = [req EXCEPT ![r] = q]
  BY DEF Refuse
<1>2. req[r].asked \in Mode \cup {"default", None}
  BY DEF ReqTyped, RequestType
<1>3. q \in RequestType
  BY <1>2, NewIsSound DEF RequestType, Over, Grounds
<1>4. /\ q.pc = "refused" /\ q.chan = None /\ q.plan = FALSE /\ q.declined = FALSE
      /\ q.rule = None /\ q.kind = None
  BY NewIsSound DEF RequestType
<1> HIDE DEF q
<1>5. Sound(q)
  BY <1>4 DEF Sound, AskedAbout, Answered, Denied, Meant, Waiting, Granted
<1> QED BY <1>1, <1>3, <1>4, <1>5 DEF OneRequest
\* What a request is when a step takes it on.
LEMMA OldIsSound ==
  ASSUME ReqTyped, NEW r \in Request
  PROVE  /\ req[r] \in RequestType /\ Sound(req[r])
         /\ r \in pending => req[r].pc \in Waiting /\ req[r].chan = None
BY DEF ReqTyped

LEMMA VerdictIs ==
  ASSUME NEW k, NEW plan \in BOOLEAN, Verdict(k, plan) # "refused"
  PROVE  /\ Verdict(k, plan) \in {"match", "gate", "allowed"}
         /\ Verdict(k, plan) \in {"match", "allowed"} => k \notin AskedAlways
         /\ plan /\ k # "egress" => k = "read"
<1>1. CASE k = "egress"
  BY <1>1 DEF Verdict, AskedAlways
<1>2. CASE k # "egress" /\ plan = TRUE
  <2>1. CASE k = "read"
    BY <1>2, <2>1 DEF Verdict, AskedAlways, PolicyAllows
  <2>2. CASE k # "read"
    BY <1>2, <2>2 DEF Verdict
  <2> QED BY <2>1, <2>2
<1>3. CASE k # "egress" /\ plan = FALSE
  BY <1>3 DEF Verdict, AskedAlways, PolicyAllows
<1> QED BY <1>1, <1>2, <1>3

LEMMA BeginStep ==
  ASSUME ReqTyped, NEW r \in Request, NEW k \in Kind, NEW s \in Scope, Begin(r, k, s),
         loop.plan \in BOOLEAN
  PROVE  \E q : OneRequest(r, q) /\ q.rule = None
<1>1. req[r].pc \notin Settled /\ pending' = pending /\ r \notin pending
  BY OldIsSound DEF Begin, Settled, Waiting
<1> DEFINE v == Verdict(k, loop.plan)
<1>2. CASE v = "refused"
  BY <1>1, <1>2, RefusedIsSound DEF Begin
<1>3. CASE v # "refused"
  <2> DEFINE plan == loop.plan /\ k # "egress"
             via == IF v = "allowed" THEN "profile" ELSE None
             q == [NewRequest EXCEPT !.pc = v, !.kind = k, !.scope = s, !.plan = plan,
                                     !.via = via]
  <2>1. req' = [req EXCEPT ![r] = q]
    BY <1>3 DEF Begin
  <2>2. /\ v \in {"match", "gate", "allowed"}
        /\ v \in {"match", "allowed"} => k \notin AskedAlways
        /\ plan => k = "read"
    BY <1>3, VerdictIs
  <2>3. plan \in BOOLEAN /\ via \in {None, "profile"}
    OBVIOUS
  <2> HIDE DEF v, plan, via
  <2>4. q \in RequestType
    BY <2>2, <2>3, NewIsSound, ZenonT(60) DEF RequestType, Over, Grounds
  <2>5. /\ q.pc = v /\ q.kind = k /\ q.plan = plan /\ q.via = via /\ q.chan = None
        /\ q.declined = FALSE /\ q.rule = None
    BY NewIsSound DEF RequestType
  <2> HIDE DEF q
  <2>6. AskedAbout(q)
    BY <2>2, <2>3, <2>5 DEF AskedAbout, Granted, Grounds
  <2>8. Answered(q) /\ Denied(q)
    BY <2>2, <2>3, <2>5 DEF Answered, Denied, Waiting, Granted, Grounds
  <2>7. Meant(q)
    BY <2>2, <2>5 DEF Meant
  <2> QED BY <1>1, <2>1, <2>4, <2>5, <2>6, <2>7, <2>8 DEF OneRequest, Sound
<1> QED BY <1>2, <1>3
\* Steps that change the place of a request, and how it was let through.
Steps(q, o, pc, via) ==
  /\ q \in RequestType
  /\ q.pc = pc /\ q.via = via
  /\ q.kind = o.kind /\ q.plan = o.plan /\ q.declined = o.declined
  /\ q.chan = o.chan /\ q.rule = o.rule /\ q.said = o.said /\ q.saidIn = o.saidIn
  /\ q.asked = o.asked

LEMMA GateStep ==
  ASSUME ReqTyped, NEW r \in Request, Gate(r)
  PROVE  \E q : OneRequest(r, q) /\ q.rule = None
<1> DEFINE o == req[r]
           v == ByMode(o.kind, mode)
<1>1. /\ o \in RequestType /\ Sound(o) /\ o.pc = "gate"
      /\ pending' = pending /\ r \notin pending
  BY OldIsSound DEF Gate, Waiting
<1>2. /\ v \in {"ask", "refused", "allowed", "assess"}
      /\ v \in {"assess", "allowed"} => o.kind \notin AskedAlways
      /\ v = "ask" => o.kind # "denied"
  BY DEF ByMode, AskedAlways
<1>3. /\ v = "refused" => Refuse(r)
      /\ v = "allowed" => Admit(r, "mode")
      /\ v \in {"ask", "assess"} => Goto(r, v)
  BY <1>2 DEF Gate
<1> HIDE DEF v
<1>4. CASE v = "refused"
  BY <1>1, <1>3, <1>4, RefusedIsSound DEF Settled
<1>5. CASE v # "refused"
  <2> DEFINE q == IF v = "allowed" THEN [o EXCEPT !.pc = "allowed", !.via = "mode"]
                  ELSE [o EXCEPT !.pc = v]
  <2>1. req' = [req EXCEPT ![r] = q]
    BY <1>2, <1>3, <1>5 DEF Admit, Goto
  <2>2. Steps(q, o, v, IF v = "allowed" THEN "mode" ELSE o.via)
    BY <1>1, <1>2, <1>5, ZenonT(60) DEF Steps, RequestType, Grounds, Over
  <2> HIDE DEF q
  <2>3. Sound(q) /\ q.rule = None
    BY <1>1, <1>2, <1>5, <2>2 DEF Steps, Sound, AskedAbout, Answered, Denied, Meant, Waiting,
         Granted, Grounds
  <2> QED BY <1>1, <2>1, <2>2, <2>3 DEF OneRequest, Settled, Steps
<1> QED BY <1>4, <1>5

LEMMA AssessStep ==
  ASSUME ReqTyped, NEW r \in Request, Assess(r)
  PROVE  \E q : OneRequest(r, q) /\ q.rule = None
<1> DEFINE o == req[r]
<1>1. /\ o \in RequestType /\ Sound(o) /\ o.pc = "assess"
      /\ pending' = pending /\ r \notin pending
  BY OldIsSound DEF Assess, Waiting
<1>2. o.kind \notin AskedAlways /\ o.chan = None /\ o.rule = None /\ ~o.declined
  BY <1>1 DEF Sound, AskedAbout, Answered, Meant, Waiting
<1>3. CASE req' = [req EXCEPT ![r].pc = "ask", ![r].declined = TRUE]
  <2> DEFINE q == [o EXCEPT !.pc = "ask", !.declined = TRUE]
  <2>1. /\ q \in RequestType /\ q.pc = "ask" /\ q.declined /\ q.kind = o.kind
        /\ q.chan = None /\ q.rule = None /\ q.plan = o.plan
    BY <1>1, <1>2 DEF RequestType
  <2>2. req' = [req EXCEPT ![r] = q]
    BY <1>3
  <2> HIDE DEF q
  <2>3. Sound(q)
    BY <1>1, <1>2, <2>1 DEF Sound, AskedAbout, Answered, Denied, Meant, Waiting, Granted
  <2> QED BY <1>1, <2>1, <2>2, <2>3 DEF OneRequest, Settled
<1>4. CASE Admit(r, "mode") /\ o.kind # "script"
  <2> DEFINE q == [o EXCEPT !.pc = "allowed", !.via = "mode"]
  <2>1. Steps(q, o, "allowed", "mode")
    BY <1>1, ZenonT(60) DEF Steps, RequestType, Grounds, Over
  <2>2. req' = [req EXCEPT ![r] = q]
    BY <1>4 DEF Admit
  <2> HIDE DEF q
  <2> HIDE DEF o
  <2>3. /\ q.pc = "allowed" /\ q.via = "mode" /\ q.kind \notin AskedAlways
        /\ q.chan = None
    BY <1>2, <2>1 DEF Steps
  <2>5. AskedAbout(q) /\ Answered(q) /\ Denied(q)
    BY <2>3 DEF AskedAbout, Answered, Denied, Granted, Waiting
  <2>4. Meant(q)
    BY <1>1, <1>2, <2>1 DEF Steps, Sound, Meant
  <2> QED BY <1>1, <1>2, <2>1, <2>2, <2>3, <2>4, <2>5 DEF OneRequest, Sound, Settled, Steps, o
<1>5. CASE /\ o.kind = "script"
           /\ req' = [req EXCEPT ![r].pc = "record", ![r].ttl = "persistent",
                                 ![r].via = "mode"]
  <2> DEFINE q == [o EXCEPT !.pc = "record", !.ttl = "persistent", !.via = "mode"]
  <2>1. Steps(q, o, "record", "mode")
    BY <1>1, ZenonT(60) DEF Steps, RequestType, Grounds, Over, TTL
  <2>2. req' = [req EXCEPT ![r] = q]
    BY <1>5
  <2> HIDE DEF q
  <2>3. Sound(q)
    BY <1>1, <1>2, <1>5, <2>1 DEF Steps, Sound, AskedAbout, Answered, Denied, Meant,
         Granted, AskedAlways
  <2> QED BY <1>1, <1>2, <2>1, <2>2, <2>3 DEF OneRequest, Settled, Steps
<1> QED BY <1>3, <1>4, <1>5 DEF Assess
LEMMA AskStep ==
  ASSUME ReqTyped, NEW r \in Request, Ask(r), mode \in Mode
  PROVE  \E q : OneRequest(r, q) /\ q.rule = None
<1> DEFINE o == req[r]
           m == IF o.kind = "egress" THEN "default" ELSE mode
           q == [o EXCEPT !.pc = "asked", !.asked = m]
<1>1. /\ o \in RequestType /\ Sound(o) /\ o.pc = "ask" /\ pending' = pending \cup {r}
  BY OldIsSound DEF Ask
<1>2. o.chan = None /\ o.rule = None
  BY <1>1 DEF Sound, Answered, Meant, Waiting
<1>3. req' = [req EXCEPT ![r] = q]
  BY DEF Ask
<1>4. m \in Mode \cup {"default"}
  OBVIOUS
<1> HIDE DEF m
<1>5. /\ q \in RequestType /\ q.pc = "asked" /\ q.kind = o.kind /\ q.plan = o.plan
      /\ q.declined = o.declined /\ q.chan = None /\ q.rule = None
  BY <1>1, <1>2, <1>4, ZenonT(60) DEF RequestType
<1> HIDE DEF q
<1>6. AskedAbout(q) /\ Denied(q)
  BY <1>1, <1>5 DEF Sound, AskedAbout, Denied, Waiting, Granted
<1>7. Answered(q) /\ Meant(q)
  BY <1>1, <1>5 DEF Sound, Answered, Meant, Waiting
<1> QED BY <1>1, <1>3, <1>5, <1>6, <1>7 DEF OneRequest, Sound, Settled, Waiting

LEMMA AwaitStep ==
  ASSUME ReqTyped, NEW r \in Request, Await(r)
  PROVE  \E q : OneRequest(r, q) /\ q.rule = None
<1> DEFINE o == req[r]
<1>1. /\ o \in RequestType /\ Sound(o) /\ o.pc = "asked"
      /\ r \in pending => o.chan = None
  BY OldIsSound DEF Await
<1>2. CASE watch.latched
  BY <1>1, <1>2, RefusedIsSound DEF Await, Settled
<1>3. CASE ~watch.latched
  <2> DEFINE q == [o EXCEPT !.pc = "wait"]
  <2>1. req' = [req EXCEPT ![r] = q] /\ pending' = pending
    BY <1>3 DEF Await, Goto
  <2>2. Steps(q, o, "wait", o.via)
    BY <1>1 DEF Steps, RequestType
  <2> HIDE DEF q
  <2>3. AskedAbout(q) /\ Denied(q)
    BY <1>1, <2>2 DEF Steps, Sound, AskedAbout, Denied, Waiting, Granted
  <2>4. Answered(q) /\ Meant(q)
    BY <1>1, <2>2 DEF Steps, Sound, Answered, Meant, Waiting, Counts
  <2>5. q.rule = None
    BY <1>1, <2>2 DEF Steps, Sound, Meant
  <2> QED BY <1>1, <2>1, <2>2, <2>3, <2>4, <2>5 DEF OneRequest, Sound, Settled, Waiting, Steps
<1> QED BY <1>2, <1>3

LEMMA EndedStep ==
  ASSUME ReqTyped, NEW r \in Request, Abort(r) \/ Expire(r)
  PROVE  \E q : OneRequest(r, q) /\ q.rule = None
BY RefusedIsSound DEF Abort, Expire, Settled

\* The client's answer reaches the request, as it is or as a refusal.
LEMMA AnswerStep ==
  ASSUME ReqTyped, HandleAnswer, mode \in Mode,
         NEW r \in Request, r = reader.frame.to, r \in pending,
         reader.frame.decision \in Decision
  PROVE  \E q : OneRequest(r, q) /\ q.rule = None
<1> DEFINE o == req[r]
           d == reader.frame.decision
           heard == Heard(r, d)
           q == [o EXCEPT !.chan = heard, !.said = d, !.saidIn = mode]
<1>1. /\ o \in RequestType /\ Sound(o) /\ o.pc \in Waiting
      /\ pending' = pending \ {r}
  BY OldIsSound DEF HandleAnswer
<1>2. o.rule = None
  BY <1>1 DEF Sound, Meant, Waiting
<1>3. /\ heard \in {d, "deny"} /\ heard \in Decision
      /\ o.kind = "denied" /\ heard = "allow" => mode \in {o.asked, "yolo"}
  BY DEF Heard
<1>4. req' = [req EXCEPT ![r] = q]
  BY DEF HandleAnswer
<1> HIDE DEF heard
<1>5. /\ q \in RequestType /\ q.pc = o.pc /\ q.kind = o.kind /\ q.plan = o.plan
      /\ q.declined = o.declined /\ q.chan = heard /\ q.said = d /\ q.saidIn = mode
      /\ q.asked = o.asked /\ q.rule = o.rule /\ q.via = o.via
  BY <1>1, <1>3 DEF RequestType
<1> HIDE DEF q
<1>6. AskedAbout(q) /\ Denied(q)
  BY <1>1, <1>5 DEF Sound, AskedAbout, Denied, Waiting, Granted
<1>7. Answered(q)
  BY <1>1, <1>3, <1>5 DEF Answered, Counts
<1>8. Meant(q)
  BY <1>1, <1>5 DEF Sound, Meant
<1> QED BY <1>1, <1>2, <1>4, <1>5, <1>6, <1>7, <1>8 DEF OneRequest, Sound, Settled, Waiting
\* What a yes becomes, and what it may leave.
LEMMA YesIs ==
  ASSUME NEW r \in Request, NEW c, OneShot(r, c) \in Accepted(req[r].kind),
         NEW ttl \in IF req[r].kind = "ahead" THEN {"once", "session"}
                     ELSE {Leaves(req[r].kind, OneShot(r, c))}
  PROVE  /\ c # "deny" /\ ttl \in TTL \cup {None}
         /\ ttl # None => req[r].kind \notin {"forced", "mandatory"}
         /\ req[r].declined /\ req[r].kind # "ahead" => ttl = None
BY DEF OneShot, Accepted, Leaves, Sticky, TTL

LEMMA TakeAnswerStep ==
  ASSUME ReqTyped, NEW r \in Request, TakeAnswer(r)
  PROVE  \E q : OneRequest(r, q) /\ q.rule = None
<1> DEFINE o == req[r]
           d == OneShot(r, o.chan)
<1>1. /\ o \in RequestType /\ Sound(o) /\ o.pc = "wait" /\ o.chan # None
      /\ pending' = pending \ {r}
  BY OldIsSound DEF TakeAnswer
<1>2. CASE d \notin Accepted(o.kind)
  BY <1>1, <1>2, RefusedIsSound DEF TakeAnswer, Settled
<1>3. CASE d \in Accepted(o.kind)
  <2>1. PICK ttl \in IF o.kind = "ahead" THEN {"once", "session"} ELSE {Leaves(o.kind, d)} :
          req' = [req EXCEPT ![r].pc = IF ttl = None THEN "allowed" ELSE "record",
                             ![r].ttl = ttl, ![r].via = "answer", ![r].chan = None]
    BY <1>3 DEF TakeAnswer
  <2>2. /\ o.chan # "deny" /\ ttl \in TTL \cup {None}
        /\ ttl # None => o.kind \notin {"forced", "mandatory"}
        /\ o.declined /\ o.kind # "ahead" => ttl = None
    BY <1>3, <2>1, YesIs
  <2> DEFINE pc == IF ttl = None THEN "allowed" ELSE "record"
             q == [o EXCEPT !.pc = pc, !.ttl = ttl, !.via = "answer", !.chan = None]
  <2>3. req' = [req EXCEPT ![r] = q]
    BY <2>1
  <2>4. pc \in {"allowed", "record"} /\ (pc = "record" <=> ttl # None)
    OBVIOUS
  <2> HIDE DEF pc
  <2>5. /\ q \in RequestType /\ q.pc = pc /\ q.kind = o.kind /\ q.plan = o.plan
        /\ q.declined = o.declined /\ q.chan = None /\ q.said = o.said
        /\ q.saidIn = o.saidIn /\ q.asked = o.asked /\ q.rule = o.rule /\ q.via = "answer"
    BY <1>1, <2>2, <2>4, ZenonT(60) DEF RequestType, Grounds, Over
  <2> HIDE DEF q, d
  <2>6. o.said \in Yes /\ o.chan = o.said /\ o.rule = None
    BY <1>1, <2>2 DEF Sound, Answered, Meant, Yes
  <2>7. /\ o.declined => o.kind \notin AskedAlways
        /\ o.kind = "denied" => o.declined /\ Counts(o)
    BY <1>1, <2>6 DEF Sound, AskedAbout, Denied, Answered, Waiting, Counts
  <2>8. AskedAbout(q)
    BY <2>4, <2>5, <2>6, <2>7 DEF AskedAbout
  <2>9. Answered(q) /\ Denied(q)
    BY <2>4, <2>5, <2>7 DEF Answered, Denied, Counts, Waiting
  <2>10. Meant(q)
    <3>1. o.declined => ttl = None
      BY <2>2, <2>7 DEF AskedAlways
    <3> QED BY <1>1, <2>2, <2>4, <2>5, <2>6, <3>1 DEF Sound, Meant, Waiting
  <2> QED BY <1>1, <2>3, <2>5, <2>6, <2>8, <2>9, <2>10 DEF OneRequest, Sound, Settled
<1> QED BY <1>2, <1>3

\* Manager.Match found a rule.
LEMMA MatchedStep ==
  ASSUME ReqTyped, NEW r \in Request, req[r].pc = "match", pending' = pending,
         NEW by \in Request,
         req' = [req EXCEPT ![r].pc = "allowed", ![r].via = "rule", ![r].rule = by]
  PROVE  \E q : OneRequest(r, q) /\ q.rule = by
<1> DEFINE o == req[r]
           q == [o EXCEPT !.pc = "allowed", !.via = "rule", !.rule = by]
<1>1. o \in RequestType /\ Sound(o) /\ r \notin pending
  BY OldIsSound DEF Waiting
<1>2. req' = [req EXCEPT ![r] = q]
  OBVIOUS
<1>3. /\ q \in RequestType /\ q.pc = "allowed" /\ q.kind = o.kind /\ q.plan = o.plan
      /\ q.declined = o.declined /\ q.chan = o.chan /\ q.rule = by /\ q.via = "rule"
  BY <1>1, ZenonT(60) DEF RequestType, Grounds, Over
<1> HIDE DEF q
<1>4. o.kind \notin AskedAlways /\ o.chan = None
  BY <1>1 DEF Sound, AskedAbout, Answered, Waiting
<1>5. AskedAbout(q) /\ Answered(q) /\ Denied(q)
  BY <1>3, <1>4 DEF AskedAbout, Answered, Denied, Waiting
<1>6. Meant(q)
  BY <1>1, <1>3 DEF Sound, Meant
<1> QED BY <1>1, <1>2, <1>3, <1>5, <1>6 DEF OneRequest, Sound, Settled

\* Manager.Match found none; Manager.Record has, or has not, kept the rule.
LEMMA MovedStep ==
  ASSUME ReqTyped, NEW r \in Request, pending' = pending,
         \/ req[r].pc = "match" /\ Goto(r, "gate")
         \/ req[r].pc = "record" /\ Goto(r, "allowed")
  PROVE  \E q : OneRequest(r, q) /\ q.rule = None
<1> DEFINE o == req[r]
           pc == IF o.pc = "match" THEN "gate" ELSE "allowed"
           q == [o EXCEPT !.pc = pc]
<1>1. o \in RequestType /\ Sound(o) /\ r \notin pending /\ o.pc \in {"match", "record"}
  BY OldIsSound DEF Waiting
<1>2. req' = [req EXCEPT ![r] = q]
  BY DEF Goto
<1>3. pc = "gate" \/ (pc = "allowed" /\ o.pc = "record")
  BY <1>1
<1> HIDE DEF pc
<1>4. Steps(q, o, pc, o.via)
  BY <1>1, <1>3 DEF Steps, RequestType, Over
<1> HIDE DEF q
<1>5. AskedAbout(q) /\ Denied(q)
  BY <1>1, <1>3, <1>4 DEF Steps, Sound, AskedAbout, Denied, Waiting, Granted, Counts
<1>6. Answered(q) /\ Meant(q) /\ q.rule = None
  BY <1>1, <1>3, <1>4 DEF Steps, Sound, Answered, Meant, Waiting
<1> QED BY <1>1, <1>2, <1>4, <1>5, <1>6 DEF OneRequest, Sound, Settled, Steps
LEMMA OthersStay ==
  ASSUME ReqTyped, NEW r \in Request, NEW q, OneRequest(r, q)
  PROVE  /\ req'[r] = q
         /\ \A s \in Request \ {r} : req'[s] = req[s]
         /\ \A s \in Request : req[s].pc \in Settled => s # r /\ req'[s] = req[s]
BY DEF ReqTyped, OneRequest

LEMMA OneRequestTyped ==
  ASSUME ReqTyped, NEW r \in Request, NEW q, OneRequest(r, q)
  PROVE  ReqTyped'
<1>1. req' \in [Request -> RequestType]
  BY DEF ReqTyped, OneRequest
<1>2. ASSUME NEW s \in Request PROVE Sound(req[s])'
  <2>1. Sound(req'[s])
    BY OthersStay DEF ReqTyped, OneRequest
  <2> QED BY <2>1 DEF Sound, AskedAbout, Answered, Denied, Meant, Counts
<1>3. ASSUME NEW s \in pending'
      PROVE  s \in Request /\ req'[s].pc \in Waiting /\ req'[s].chan = None
  BY <1>3, OthersStay DEF ReqTyped, OneRequest
<1> QED BY <1>1, <1>2, <1>3 DEF ReqTyped

\* The steps that move no request.
LEMMA ReqFrames ==
  ASSUME ReqTyped, UNCHANGED req, pending' \subseteq pending
  PROVE  ReqTyped'
<1>1. ASSUME NEW s \in Request PROVE Sound(req[s])'
  BY DEF ReqTyped, Sound, AskedAbout, Answered, Denied, Meant, Counts
<1> QED BY <1>1 DEF ReqTyped

-----------------------------------------------------------------------------
(* The rules requests leave.                                               *)

\* A rule is what its request asked for, and the request is over.
RulesKept ==
  \A x \in rules : LET q == req[x.by] IN
    /\ q.pc = "allowed" /\ q.ttl = x.ttl /\ q.scope = x.scope
    /\ q.kind \notin {"forced", "mandatory"} /\ ~q.declined

\* Who was let through by a rule was let through by one that was recorded; a
\* rule for one use that is still there has not been used.
RulesUsed ==
  /\ \A r \in Request : req[r].rule # None => req[req[r].rule].pc = "allowed"
  /\ \A x \in rules, r \in Request : x.ttl = "once" => req[r].rule # x.by

RulesInv == rules \subseteq Rule /\ RulesKept /\ RulesUsed /\ OnceUsedOnce

LEMMA RulesInit1 == Init => RulesInv
BY DEF Init, RulesInit, NewRequest, RulesInv, RulesKept, RulesUsed, OnceUsedOnce

LEMMA RulesFrames ==
  ASSUME RulesInv, UNCHANGED req, rules' \subseteq rules
  PROVE  RulesInv'
BY DEF RulesInv, RulesKept, RulesUsed, OnceUsedOnce

LEMMA RulesQuiet ==
  ASSUME ReqTyped, RulesInv, NEW r \in Request, NEW q, OneRequest(r, q), q.rule = None,
         UNCHANGED rules
  PROVE  RulesInv'
<1>1. ASSUME NEW x \in rules PROVE x.by \in Request /\ req'[x.by] = req[x.by]
  BY <1>1, OthersStay DEF RulesInv, RulesKept, Rule, Settled
<1>2. ASSUME NEW s \in Request, req'[s].rule # None
      PROVE  /\ s # r /\ req'[s] = req[s] /\ req[s].rule \in Request
             /\ req'[req[s].rule] = req[req[s].rule] /\ req[req[s].rule].pc = "allowed"
  <2>1. s # r /\ req'[s] = req[s]
    BY <1>2, OthersStay
  <2>2. req[s].rule \in Request /\ req[req[s].rule].pc = "allowed"
    BY <1>2, <2>1 DEF ReqTyped, RequestType, RulesInv, RulesUsed
  <2> QED BY <2>1, <2>2, OthersStay DEF Settled
<1>3. RulesKept'
  BY <1>1 DEF RulesInv, RulesKept
<1>4. RulesUsed'
  BY <1>1, <1>2 DEF RulesInv, RulesUsed
<1>5. OnceUsedOnce'
  BY <1>2 DEF RulesInv, OnceUsedOnce
<1> QED BY <1>3, <1>4, <1>5 DEF RulesInv

\* Rules of the same request are the same rule.
LEMMA RulesDiffer ==
  ASSUME RulesInv, NEW x \in rules, NEW y \in rules, x.by = y.by
  PROVE  x = y
BY DEF RulesInv, RulesKept, Rule

LEMMA RulesMatched ==
  ASSUME ReqTyped, RulesInv, NEW r \in Request, NEW q, OneRequest(r, q),
         NEW x \in rules, q.rule = x.by, Spend(x)
  PROVE  RulesInv'
<1>1. ASSUME NEW y \in rules PROVE y.by \in Request /\ y.by # r /\ req'[y.by] = req[y.by]
  BY <1>1, OthersStay DEF RulesInv, RulesKept, Rule, Settled
<1>2. ASSUME NEW s \in Request \ {r}, req'[s].rule # None
      PROVE  /\ req'[s] = req[s] /\ req[s].rule \in Request
             /\ req'[req[s].rule] = req[req[s].rule] /\ req[req[s].rule].pc = "allowed"
  <2>1. req'[s] = req[s]
    BY <1>2, OthersStay
  <2>2. req[s].rule \in Request /\ req[req[s].rule].pc = "allowed"
    BY <1>2, <2>1 DEF ReqTyped, RequestType, RulesInv, RulesUsed
  <2> QED BY <2>1, <2>2, OthersStay DEF Settled
<1>3. rules' \subseteq rules /\ (x.ttl = "once" => x \notin rules')
  BY DEF Spend
<1>4. req'[r].rule = x.by /\ req[x.by].pc = "allowed" /\ req[x.by].ttl = x.ttl
  BY OthersStay DEF RulesInv, RulesKept
<1>5. RulesKept'
  BY <1>1, <1>3 DEF RulesInv, RulesKept
<1>6. ASSUME NEW s \in Request, req'[s].rule # None
      PROVE  req'[req'[s].rule].pc = "allowed"
  BY <1>1, <1>2, <1>4, <1>6
<1>7. ASSUME NEW y \in rules', NEW s \in Request, y.ttl = "once"
      PROVE  req'[s].rule # y.by
  <2>1. CASE s = r
    BY <1>3, <1>4, <1>7, <2>1, RulesDiffer
  <2>2. CASE s # r
    BY <1>2, <1>3, <1>7, <2>2, OthersStay DEF RulesInv, RulesUsed
  <2> QED BY <2>1, <2>2
<1>8. ASSUME NEW s \in Request \ {r}, req'[s].rule = x.by PROVE req'[x.by].ttl # "once"
  <2>1. req[s].rule = x.by
    BY <1>8, OthersStay
  <2> QED BY <1>1, <1>4, <2>1 DEF RulesInv, RulesUsed
<1>9. OnceUsedOnce'
  <2> SUFFICES ASSUME NEW r1 \in Request, NEW r2 \in Request, r1 # r2,
                      req'[r1].rule # None, req'[r1].rule = req'[r2].rule
               PROVE  req'[req'[r1].rule].ttl # "once"
    BY DEF OnceUsedOnce
  <2>1. CASE r1 = r \/ r2 = r
    BY <1>4, <1>8, <2>1
  <2>2. CASE r1 # r /\ r2 # r
    BY <1>2, <2>2 DEF RulesInv, OnceUsedOnce
  <2> QED BY <2>1, <2>2
<1> QED BY <1>3, <1>5, <1>6, <1>7, <1>9 DEF RulesInv, RulesUsed
LEMMA RulesRecorded ==
  ASSUME ReqTyped, RulesInv, NEW r \in Request, req[r].pc = "record", Goto(r, "allowed"),
         NEW x, x = [by |-> r, scope |-> req[r].scope, ttl |-> req[r].ttl],
         x \in Rule, RecordRule(x)
  PROVE  RulesInv'
<1>1. /\ req[r] \in RequestType /\ Sound(req[r]) /\ rules' = rules \cup {x}
  BY OldIsSound DEF RecordRule
<1>2. /\ req'[r].pc = "allowed" /\ req'[r].ttl = x.ttl /\ req'[r].scope = x.scope
      /\ req'[r].kind = req[r].kind /\ req'[r].declined = req[r].declined
      /\ x.by = r
  BY <1>1 DEF ReqTyped, Goto, RequestType
<1>3. req[r].kind \notin {"forced", "mandatory"} /\ ~req[r].declined /\ req[r].rule = None
  BY <1>1 DEF Sound, Meant, Waiting
<1>4. \A s \in Request : /\ req'[s].rule = req[s].rule /\ req'[s].ttl = req[s].ttl
                         /\ s # r => req'[s] = req[s]
  BY <1>1 DEF ReqTyped, Goto, RequestType
<1>5. ASSUME NEW y \in rules PROVE y.by \in Request /\ y.by # r
  BY <1>5 DEF RulesInv, RulesKept, Rule
<1>6. \A s \in Request : req[s].rule # r
  BY DEF RulesInv, RulesUsed, ReqTyped
<1>7. RulesKept'
  BY <1>1, <1>2, <1>3, <1>4, <1>5 DEF RulesInv, RulesKept
<1>8. \A s \in Request : req'[s].rule # None => req'[req'[s].rule].pc = "allowed"
  <2> SUFFICES ASSUME NEW s \in Request, req'[s].rule # None
               PROVE  req'[req'[s].rule].pc = "allowed"
    OBVIOUS
  <2>1. req[s].rule \in Request \ {r} /\ req[req[s].rule].pc = "allowed"
    BY <1>4, <1>6 DEF RulesInv, RulesUsed, ReqTyped, RequestType
  <2> QED BY <1>4, <2>1
<1>9. \A y \in rules', s \in Request : y.ttl = "once" => req'[s].rule # y.by
  BY <1>1, <1>2, <1>4, <1>6 DEF RulesInv, RulesUsed
<1>10. OnceUsedOnce'
  <2> SUFFICES ASSUME NEW r1 \in Request, NEW r2 \in Request, r1 # r2,
                      req'[r1].rule # None, req'[r1].rule = req'[r2].rule
               PROVE  req'[req'[r1].rule].ttl # "once"
    BY DEF OnceUsedOnce
  <2>1. req[r1].rule \in Request
    BY <1>4 DEF ReqTyped, RequestType
  <2> QED BY <1>4, <2>1 DEF RulesInv, OnceUsedOnce
<1> QED BY <1>1, <1>7, <1>8, <1>9, <1>10 DEF RulesInv, RulesUsed

-----------------------------------------------------------------------------
(* The invariant.                                                          *)

\* A request under way has a scope, and one that leaves a rule its lifetime.
Scoped ==
  \A r \in Request :
    /\ req[r].pc \notin {"unborn", "refused"} => req[r].scope \in Scope
    /\ req[r].pc = "record" => req[r].ttl \in TTL

ScopedOne(q) ==
  /\ q.pc \notin {"unborn", "refused"} => q.scope \in Scope
  /\ q.pc = "record" => q.ttl \in TTL

\* It is enough to look at the request that moves.
LEMMA ScopedByOne ==
  ASSUME ReqTyped, Scoped, NEW r \in Request, NEW q, req' = [req EXCEPT ![r] = q],
         ScopedOne(q)
  PROVE  Scoped'
BY DEF ReqTyped, Scoped, ScopedOne

LEMMA ScopedRefused ==
  ASSUME ReqTyped, Scoped, NEW r \in Request, Refuse(r)
  PROVE  Scoped'
<1> DEFINE q == [NewRequest EXCEPT !.pc = "refused", !.asked = req[r].asked]
<1>1. req' = [req EXCEPT ![r] = q] /\ q.pc = "refused"
  BY NewIsSound DEF Refuse, RequestType
<1> HIDE DEF q
<1>2. ScopedOne(q)
  BY <1>1 DEF ScopedOne
<1> QED BY <1>1, <1>2, ScopedByOne

LEMMA ScopedBegin ==
  ASSUME ReqTyped, Scoped, NEW r \in Request, NEW k \in Kind, NEW s \in Scope,
         Begin(r, k, s), loop.plan \in BOOLEAN
  PROVE  Scoped'
<1> DEFINE v == Verdict(k, loop.plan)
<1>1. CASE v = "refused"
  BY <1>1, ScopedRefused DEF Begin
<1>2. CASE v # "refused"
  <2> DEFINE plan == loop.plan /\ k # "egress"
             via == IF v = "allowed" THEN "profile" ELSE None
             q == [NewRequest EXCEPT !.pc = v, !.kind = k, !.scope = s, !.plan = plan,
                                     !.via = via]
  <2>1. req' = [req EXCEPT ![r] = q]
    BY <1>2 DEF Begin
  <2>2. v # "record"
    BY <1>2, VerdictIs
  <2> HIDE DEF v, plan, via
  <2>3. q.pc = v /\ q.scope = s
    BY NewIsSound DEF RequestType
  <2> HIDE DEF q
  <2>4. ScopedOne(q)
    BY <2>2, <2>3 DEF ScopedOne
  <2> QED BY <2>1, <2>4, ScopedByOne
<1> QED BY <1>1, <1>2

\* A step of a request under way that keeps its scope.
LEMMA ScopedOn ==
  ASSUME ReqTyped, Scoped, NEW r \in Request,
         req[r].pc \notin {"unborn", "refused"},
         req'[r].scope = req[r].scope, req'[r].pc = "record" => req'[r].ttl \in TTL,
         \A s \in Request \ {r} : req'[s] = req[s]
  PROVE  Scoped'
BY DEF Scoped

LEMMA ScopedRequest ==
  ASSUME ReqTyped, Scoped, NEW r \in Request, RequestStep(r)
  PROVE  Scoped'
<1>1. req[r] \in RequestType
  BY OldIsSound
<1>2. CASE Refuse(r)
  BY <1>2, ScopedRefused
<1>3. ASSUME NEW pc, Goto(r, pc), pc # "record", req[r].pc \notin {"unborn", "refused"}
      PROVE  Scoped'
  <2>1. /\ req'[r].scope = req[r].scope /\ req'[r].pc = pc
        /\ \A s \in Request \ {r} : req'[s] = req[s]
    BY <1>1, <1>3 DEF Goto, ReqTyped, RequestType
  <2> QED BY <1>3, <2>1, ScopedOn
<1>4. ASSUME NEW via, Admit(r, via), req[r].pc \notin {"unborn", "refused"} PROVE Scoped'
  <2>1. /\ req'[r].scope = req[r].scope /\ req'[r].pc = "allowed"
        /\ \A s \in Request \ {r} : req'[s] = req[s]
    BY <1>1, <1>4 DEF Admit, ReqTyped, RequestType
  <2> QED BY <1>4, <2>1, ScopedOn
<1>5. CASE Match(r)
  <2>1. CASE Goto(r, "gate")
    BY <1>3, <1>5, <2>1 DEF Match
  <2>2. CASE ~Goto(r, "gate")
    <3>1. /\ req'[r].scope = req[r].scope /\ req'[r].pc = "allowed"
          /\ \A s \in Request \ {r} : req'[s] = req[s]
      BY <1>1, <1>5, <2>2 DEF Match, ReqTyped, RequestType
    <3> QED BY <1>5, <3>1, ScopedOn DEF Match
  <2> QED BY <2>1, <2>2
<1>6. CASE Gate(r)
  <2>1. ByMode(req[r].kind, mode) # "record"
    BY DEF ByMode
  <2>2. \/ Admit(r, "mode") \/ Refuse(r) \/ Goto(r, ByMode(req[r].kind, mode))
    BY <1>6 DEF Gate
  <2> QED BY <1>2, <1>3, <1>4, <1>6, <2>1, <2>2 DEF Gate
<1>7. CASE Assess(r)
  <2>1. CASE Admit(r, "mode")
    BY <1>4, <1>7, <2>1 DEF Assess
  <2>2. CASE ~Admit(r, "mode")
    <3>1. /\ req'[r].scope = req[r].scope
          /\ req'[r].pc = "record" => req'[r].ttl \in TTL
          /\ \A s \in Request \ {r} : req'[s] = req[s]
      BY <1>1, <1>7, <2>2 DEF Assess, ReqTyped, RequestType, TTL
    <3> QED BY <1>7, <3>1, ScopedOn DEF Assess
  <2> QED BY <2>1, <2>2
<1>8. CASE Ask(r)
  <2>1. /\ req'[r].scope = req[r].scope /\ req'[r].pc = "asked"
        /\ \A s \in Request \ {r} : req'[s] = req[s]
    BY <1>1, <1>8 DEF Ask, ReqTyped, RequestType
  <2> QED BY <1>8, <2>1, ScopedOn DEF Ask
<1>9. CASE Await(r) \/ Abort(r) \/ Expire(r)
  BY <1>2, <1>3, <1>9 DEF Await, Abort, Expire
<1>10. CASE TakeAnswer(r) /\ ~Refuse(r)
  <2> DEFINE d == OneShot(r, req[r].chan)
  <2>1. d \in Accepted(req[r].kind)
    BY <1>10 DEF TakeAnswer
  <2>2. PICK ttl \in IF req[r].kind = "ahead" THEN {"once", "session"}
                     ELSE {Leaves(req[r].kind, d)} :
          req' = [req EXCEPT ![r].pc = IF ttl = None THEN "allowed" ELSE "record",
                             ![r].ttl = ttl, ![r].via = "answer", ![r].chan = None]
    BY <1>10, <2>1 DEF TakeAnswer
  <2>3. ttl \in TTL \cup {None}
    BY <2>1, <2>2, YesIs
  <2> HIDE DEF d
  <2>4. /\ req'[r].scope = req[r].scope
        /\ req'[r].pc = IF ttl = None THEN "allowed" ELSE "record"
        /\ req'[r].ttl = ttl
        /\ \A s \in Request \ {r} : req'[s] = req[s]
    BY <1>1, <2>2 DEF ReqTyped, RequestType
  <2> QED BY <1>10, <2>3, <2>4, ScopedOn DEF TakeAnswer
<1>11. CASE Record(r)
  BY <1>2, <1>3, <1>11 DEF Record
<1> QED BY <1>2, <1>5, <1>6, <1>7, <1>8, <1>9, <1>10, <1>11 DEF RequestStep
RequestsInv == ReqTyped /\ Scoped /\ RulesInv

LEMMA FramesKept ==
  ASSUME RequestsInv, UNCHANGED req, pending' \subseteq pending, rules' \subseteq rules
  PROVE  RequestsInv'
BY ReqFrames, RulesFrames DEF RequestsInv, Scoped

\* A step that leaves the rules alone.
LEMMA QuietKept ==
  ASSUME RequestsInv, NEW r \in Request, \E q : OneRequest(r, q) /\ q.rule = None,
         UNCHANGED rules, Scoped'
  PROVE  RequestsInv'
BY OneRequestTyped, RulesQuiet DEF RequestsInv

LEMMA AnswerKept ==
  ASSUME ConnTyped, RequestsInv, HandleAnswer
  PROVE  RequestsInv'
<1> DEFINE r == reader.frame.to
<1>1. /\ reader.frame \in [t : {"answer"}, to : Request, decision : Decision]
      /\ UNCHANGED rules /\ mode \in Mode
  BY DEF ConnTyped, ReaderHolds, HandleAnswer, Frame
<1>2. CASE r \in pending
  <2>1. \E q : OneRequest(r, q) /\ q.rule = None
    BY <1>1, <1>2, AnswerStep DEF RequestsInv
  <2>2. /\ req[r].pc \in Waiting /\ req[r] \in RequestType
    BY <1>1, <1>2, OldIsSound DEF RequestsInv
  <2>3. PICK c, d, m : req' = [req EXCEPT ![r].chan = c, ![r].said = d, ![r].saidIn = m]
    BY <1>2 DEF HandleAnswer
  <2>4. req \in [Request -> RequestType] /\ r \in Request
    BY <1>1 DEF RequestsInv, ReqTyped
  <2> HIDE DEF r
  <2>5. /\ req'[r].scope = req[r].scope /\ req'[r].pc = req[r].pc
        /\ \A s \in Request \ {r} : req'[s] = req[s]
    BY <2>2, <2>3, <2>4, ZenonT(60) DEF RequestType
  <2>6. Scoped'
    BY <2>2, <2>4, <2>5, ScopedOn DEF RequestsInv, Waiting
  <2> QED BY <1>1, <2>1, <2>4, <2>6, QuietKept
<1>3. CASE r \notin pending
  <2>1. UNCHANGED req /\ pending' \subseteq pending
    BY <1>3 DEF HandleAnswer
  <2> QED BY <1>1, <2>1, FramesKept
<1> QED BY <1>2, <1>3

LEMMA MatchKept ==
  ASSUME RequestsInv, NEW r \in Request, Match(r)
  PROVE  RequestsInv'
<1>1. Scoped'
  BY ScopedRequest DEF RequestsInv, RequestStep
<1>2. CASE Admitting(req[r].scope) = {}
  BY <1>1, <1>2, MovedStep, QuietKept DEF Match, RequestsInv
<1>3. CASE Admitting(req[r].scope) # {}
  <2>1. PICK x \in Admitting(req[r].scope) :
          /\ Spend(x)
          /\ req' = [req EXCEPT ![r].pc = "allowed", ![r].via = "rule", ![r].rule = x.by]
    BY <1>3 DEF Match
  <2>2. x \in rules /\ x.by \in Request
    BY DEF Admitting, RequestsInv, RulesInv, Rule
  <2>3. PICK q : OneRequest(r, q) /\ q.rule = x.by
    BY <2>1, <2>2, MatchedStep DEF Match, RequestsInv
  <2> QED BY <1>1, <2>1, <2>2, <2>3, OneRequestTyped, RulesMatched DEF RequestsInv
<1> QED BY <1>2, <1>3

LEMMA RecordKept ==
  ASSUME RequestsInv, NEW r \in Request, Record(r)
  PROVE  RequestsInv'
<1> DEFINE x == [by |-> r, scope |-> req[r].scope, ttl |-> req[r].ttl]
<1>1. Scoped' /\ req[r].pc = "record" /\ pending' = pending
  BY ScopedRequest DEF RequestsInv, RequestStep, Record
<1>2. CASE RecordRule(x) /\ Goto(r, "allowed")
  <2>1. x \in Rule
    BY <1>1 DEF RequestsInv, Scoped, Rule
  <2>2. RulesInv'
    BY <1>1, <1>2, <2>1, RulesRecorded DEF RequestsInv
  <2>3. ReqTyped'
    BY <1>1, <1>2, MovedStep, OneRequestTyped DEF RequestsInv
  <2> QED BY <1>1, <2>2, <2>3 DEF RequestsInv
<1>3. CASE UNCHANGED rules /\ (Goto(r, "allowed") \/ Refuse(r))
  <2>1. r \notin pending
    BY <1>1, OldIsSound DEF RequestsInv, Waiting
  <2>2. \E q : OneRequest(r, q) /\ q.rule = None
    BY <1>1, <1>3, <2>1, MovedStep, RefusedIsSound DEF RequestsInv, Settled
  <2> QED BY <1>1, <1>3, <2>2, QuietKept
<1> QED BY <1>2, <1>3 DEF Record

LEMMA RequestKept ==
  ASSUME ConnTyped, RequestsInv, NEW r \in Request, RequestStep(r)
  PROVE  RequestsInv'
<1>1. CASE Match(r) \/ Record(r)
  BY <1>1, MatchKept, RecordKept
<1>2. CASE Gate(r) \/ Assess(r) \/ Ask(r) \/ Await(r) \/ TakeAnswer(r) \/ Abort(r) \/ Expire(r)
  <2>1. Scoped'
    BY ScopedRequest DEF RequestsInv
  <2>2. UNCHANGED rules
    BY <1>2 DEF Gate, Assess, Ask, Await, TakeAnswer, Abort, Expire
  <2>3. \E q : OneRequest(r, q) /\ q.rule = None
    BY <1>2, GateStep, AssessStep, AskStep, AwaitStep, TakeAnswerStep, EndedStep
       DEF RequestsInv, ConnTyped
  <2> QED BY <2>1, <2>2, <2>3, QuietKept
<1> QED BY <1>1, <1>2 DEF RequestStep

LEMMA BeginKept ==
  ASSUME ConnTyped, RequestsInv, NEW r \in Request, NEW k \in Kind, NEW s \in Scope,
         Begin(r, k, s)
  PROVE  RequestsInv'
<1>1. loop.plan \in BOOLEAN
  BY DEF ConnTyped, LoopType
<1>2. UNCHANGED rules
  BY DEF Begin
<1> QED BY <1>1, <1>2, BeginStep, ScopedBegin, QuietKept DEF RequestsInv

LEMMA RequestsInvStep == ConnTyped /\ RequestsInv /\ [Next]_vars => RequestsInv'
<1> SUFFICES ASSUME ConnTyped, RequestsInv, [Next]_vars PROVE RequestsInv'
  OBVIOUS
<1>1. CASE Client
  BY <1>1, FramesKept DEF Client, ReadFrame, Disconnect
<1>2. CASE HandleAnswer
  BY <1>2, AnswerKept
<1>3. CASE HandleCancel \/ HandleSetMode \/ HandleMessage \/ Forward
  BY <1>3, FramesKept DEF HandleCancel, HandleSetMode, HandleMessage, Forward
<1>4. CASE LoopStep
  BY <1>4, FramesKept DEF LoopStep, LoopSetMode, TakeMessage, BindTurn, StartTurn,
       EndTurn, LoopReturns
<1>5. CASE Withdraw
  BY <1>5, FramesKept DEF Withdraw, WithdrawRule
<1>6. ASSUME NEW r \in Request, RequestStep(r) \/ \E k \in Kind, s \in Scope : Begin(r, k, s)
      PROVE  RequestsInv'
  BY <1>6, RequestKept, BeginKept
<1>7. CASE UNCHANGED vars
  BY <1>7, FramesKept DEF vars
<1> QED BY <1>1, <1>2, <1>3, <1>4, <1>5, <1>6, <1>7 DEF Next, ReaderStep
SessionInv == ConnTyped /\ RequestsInv

LEMMA SessionInvInit == Init => SessionInv
<1> SUFFICES ASSUME Init PROVE SessionInv
  OBVIOUS
<1>1. Scoped
  BY DEF Init, NewRequest, Scoped
<1> QED BY <1>1, ConnInit, ReqInit, RulesInit1 DEF SessionInv, RequestsInv

LEMMA SessionInvStep == SessionInv /\ [Next]_vars => SessionInv'
BY ConnStep, RequestsInvStep DEF SessionInv

LEMMA SessionInvariant == Spec => []SessionInv
BY SessionInvInit, SessionInvStep, PTL DEF Spec

\* Every variable has its type; a prompt the tracker holds has a call that waits
\* for it, and no answer yet.
THEOREM SessionTypes == Spec => []SessionTypeOK
<1>1. SessionInv => SessionTypeOK
  BY DEF SessionInv, ConnTyped, RequestsInv, ReqTyped, RulesInv, SessionTypeOK, ReaderType,
         LoopType, WatchType, Waiting
<1> QED BY <1>1, SessionInvariant, PTL

\* What must be asked about every time runs on a yes of the client to that very
\* prompt, whatever answers, timers, rules and modes interleave.
THEOREM AskedAreAnswered == Spec => []AskedIsAnswered
<1>1. SessionInv => AskedIsAnswered
  BY DEF SessionInv, RequestsInv, ReqTyped, Sound, AskedAbout, Granted, AskedIsAnswered,
         Allowed
<1> QED BY <1>1, SessionInvariant, PTL

\* What the profile denies is not let through by an allow that came with a
\* change of the mode (permTracker.deliver).
THEOREM DenialsStand == Spec => []PolicyDenyKept
<1>1. SessionInv => PolicyDenyKept
  BY DEF SessionInv, RequestsInv, ReqTyped, Sound, Denied, Counts, Granted, PolicyDenyKept,
         Allowed
<1> QED BY <1>1, SessionInvariant, PTL

\* No rule comes of a call that must always be asked about, or of one the model
\* declined and a person let pass once.
THEOREM OnlyMeantGrants == Spec => []GrantsAreMeant
<1>1. SessionInv => GrantsAreMeant
  BY DEF SessionInv, RequestsInv, RulesInv, RulesKept, GrantsAreMeant
<1> QED BY <1>1, SessionInvariant, PTL

\* A rule for one use admits one call (Manager.Match).
THEOREM OneUse == Spec => []OnceUsedOnce
<1>1. SessionInv => OnceUsedOnce
  BY DEF SessionInv, RequestsInv, RulesInv
<1> QED BY <1>1, SessionInvariant, PTL

\* A plan turn runs nothing but read-only calls, whatever the mode becomes.
THEOREM PlansRead == Spec => []PlanTurnReads
<1>1. SessionInv => PlanTurnReads
  BY DEF SessionInv, RequestsInv, ReqTyped, Sound, Meant, PlanTurnReads
<1> QED BY <1>1, SessionInvariant, PTL

-----------------------------------------------------------------------------
(* The tracker, both ways.                                                 *)

\* The tracker holds exactly the prompts that still wait for an answer.  An
\* entry is never left behind by a call that has gone on, and none is lost: as
\* long as a call waits and has been told nothing, an answer the client sends
\* reaches it, whichever of register, deliver, the timer, the turn's end and
\* other calls' prompts came between (permTracker).
TrackerExact ==
  pending = {r \in Request : req[r].pc \in Waiting /\ req[r].chan = None}

Unanswered(q) == q.pc \in Waiting /\ q.chan = None
NothingLost == \A r \in Request : Unanswered(req[r]) => r \in pending

\* A step of one request that loses no prompt.
KeepsPrompts(r) ==
  /\ \A s \in Request \ {r} : req'[s] = req[s]
  /\ pending \ {r} \subseteq pending'
  /\ Unanswered(req'[r]) => r \in pending'

LEMMA PromptsKept ==
  ASSUME NothingLost, NEW r \in Request, KeepsPrompts(r)
  PROVE  NothingLost'
BY DEF NothingLost, KeepsPrompts, Unanswered

\* What becomes of a request that moves on, is refused or is let through.
LEMMA Becomes ==
  ASSUME ReqTyped, NEW r \in Request
  PROVE  /\ Refuse(r) => req'[r].pc = "refused" /\ \A s \in Request \ {r} : req'[s] = req[s]
         /\ \A pc : Goto(r, pc) =>
              /\ req'[r].pc = pc /\ req'[r].chan = req[r].chan
              /\ \A s \in Request \ {r} : req'[s] = req[s]
         /\ \A via : Admit(r, via) =>
              req'[r].pc = "allowed" /\ \A s \in Request \ {r} : req'[s] = req[s]
<1>1. req \in [Request -> RequestType] /\ req[r] \in RequestType
  BY DEF ReqTyped
<1>2. [NewRequest EXCEPT !.pc = "refused", !.asked = req[r].asked].pc = "refused"
  BY DEF NewRequest
<1>3. ASSUME Refuse(r)
      PROVE  req'[r].pc = "refused" /\ \A s \in Request \ {r} : req'[s] = req[s]
  BY <1>1, <1>2, <1>3 DEF Refuse
<1>4. ASSUME NEW pc, Goto(r, pc)
      PROVE  /\ req'[r].pc = pc /\ req'[r].chan = req[r].chan
             /\ \A s \in Request \ {r} : req'[s] = req[s]
  BY <1>1, <1>4 DEF Goto, RequestType
<1>5. ASSUME NEW via, Admit(r, via)
      PROVE  req'[r].pc = "allowed" /\ \A s \in Request \ {r} : req'[s] = req[s]
  BY <1>1, <1>5 DEF Admit, RequestType
<1> QED BY <1>3, <1>4, <1>5

LEMMA RequestKeepsPrompts ==
  ASSUME ReqTyped, NothingLost, NEW r \in Request, RequestStep(r)
  PROVE  KeepsPrompts(r)
<1> USE DEF Waiting, Unanswered, KeepsPrompts
<1>1. req \in [Request -> RequestType] /\ req[r] \in RequestType
  BY DEF ReqTyped
<1>2. CASE Match(r)
  <2>1. CASE Goto(r, "gate")
    BY <1>2, <2>1, Becomes DEF Match
  <2>2. CASE \E x : req' = [req EXCEPT ![r].pc = "allowed", ![r].via = "rule", ![r].rule = x]
    <3>1. PICK x : req' = [req EXCEPT ![r].pc = "allowed", ![r].via = "rule", ![r].rule = x]
      BY <2>2
    <3>2. req'[r].pc = "allowed" /\ \A s \in Request \ {r} : req'[s] = req[s]
      BY <1>1, <3>1 DEF RequestType
    <3> QED BY <1>2, <3>2 DEF Match
  <2> QED BY <1>2, <2>1, <2>2 DEF Match
<1>3. CASE Gate(r)
  <2>1. Admit(r, "mode") \/ Refuse(r) \/ Goto(r, "ask") \/ Goto(r, "assess")
    BY <1>3 DEF Gate, ByMode
  <2> QED BY <1>3, <2>1, Becomes DEF Gate
<1>4. CASE Assess(r)
  <2>1. pending' = pending
    BY <1>4 DEF Assess
  <2>2. CASE Admit(r, "mode")
    BY <2>1, <2>2, Becomes
  <2>3. CASE req' = [req EXCEPT ![r].pc = "record", ![r].ttl = "persistent", ![r].via = "mode"]
    BY <1>1, <2>1, <2>3 DEF RequestType
  <2>4. CASE req' = [req EXCEPT ![r].pc = "ask", ![r].declined = TRUE]
    BY <1>1, <2>1, <2>4 DEF RequestType
  <2> QED BY <1>4, <2>2, <2>3, <2>4 DEF Assess
<1>5. CASE Ask(r)
  BY <1>1, <1>5 DEF Ask, RequestType
<1>6. CASE Await(r)
  <2>1. CASE watch.latched
    BY <1>6, <2>1, Becomes DEF Await
  <2>2. CASE ~watch.latched
    <3>1. Goto(r, "wait") /\ pending' = pending /\ req[r].pc = "asked"
      BY <1>6, <2>2 DEF Await
    <3>2. req[r].chan = None => r \in pending
      BY <3>1 DEF NothingLost
    <3> QED BY <3>1, <3>2, Becomes
  <2> QED BY <2>1, <2>2
<1>7. CASE TakeAnswer(r)
  <2>1. pending' = pending \ {r}
    BY <1>7 DEF TakeAnswer
  <2>2. CASE Refuse(r)
    BY <2>1, <2>2, Becomes
  <2>3. CASE \E ttl : req' = [req EXCEPT ![r].pc = IF ttl = None THEN "allowed" ELSE "record",
                                         ![r].ttl = ttl, ![r].via = "answer", ![r].chan = None]
    BY <1>1, <2>1, <2>3 DEF RequestType
  <2> QED BY <1>7, <2>2, <2>3 DEF TakeAnswer
<1>8. CASE Abort(r) \/ Expire(r)
  BY <1>8, Becomes DEF Abort, Expire
<1>9. CASE Record(r)
  <2>1. pending' = pending /\ (Goto(r, "allowed") \/ Refuse(r))
    BY <1>9 DEF Record
  <2> QED BY <2>1, Becomes
<1> QED BY <1>2, <1>3, <1>4, <1>5, <1>6, <1>7, <1>8, <1>9 DEF RequestStep

LEMMA BeginKeepsPrompts ==
  ASSUME ReqTyped, NEW r \in Request, NEW k \in Kind, NEW s \in Scope, Begin(r, k, s),
         loop.plan \in BOOLEAN
  PROVE  KeepsPrompts(r)
<1>1. PICK q : OneRequest(r, q)
  BY BeginStep
<1>2. pending' = pending /\ req[r].pc = "unborn"
  BY DEF Begin
<1>3. req'[r].pc \notin Waiting
  <2> DEFINE v == Verdict(k, loop.plan)
  <2>1. CASE v = "refused"
    BY <2>1, Becomes DEF Begin, Waiting
  <2>2. CASE v # "refused"
    <3>1. v \in {"match", "gate", "allowed"}
      BY <2>2, VerdictIs
    <3> DEFINE p == loop.plan /\ k # "egress"
               w == IF v = "allowed" THEN "profile" ELSE None
    <3>2. req' = [req EXCEPT ![r] = [NewRequest EXCEPT !.pc = v, !.kind = k, !.scope = s,
                                                       !.plan = p, !.via = w]]
      BY <2>2 DEF Begin
    <3> HIDE DEF v, p, w
    <3>3. req'[r] = [NewRequest EXCEPT !.pc = v, !.kind = k, !.scope = s, !.plan = p, !.via = w]
      BY <3>2 DEF ReqTyped
    <3>4. req'[r].pc = v
      BY <3>3 DEF NewRequest
    <3> QED BY <3>1, <3>4 DEF Waiting
  <2> QED BY <2>1, <2>2
<1> QED BY <1>1, <1>2, <1>3, OthersStay DEF KeepsPrompts, Unanswered

\* An answer takes its prompt off the tracker, and no other.
LEMMA AnswerKeepsPrompts ==
  ASSUME ConnTyped, ReqTyped, NothingLost, HandleAnswer
  PROVE  NothingLost'
<1> DEFINE r == reader.frame.to
           d == reader.frame.decision
<1>1. r \in Request /\ d \in Decision
  BY DEF ConnTyped, ReaderHolds, HandleAnswer, Frame
<1>2. CASE r \in pending
  <2>1. req' = [req EXCEPT ![r].chan = Heard(r, d), ![r].said = d, ![r].saidIn = mode]
    BY <1>2 DEF HandleAnswer
  <2>2. Heard(r, d) # None
    BY <1>1, SessionAssumption DEF Heard
  <2>3. pending' = pending \ {r}
    BY DEF HandleAnswer
  <2> DEFINE h == Heard(r, d)
  <2>4. h # None /\ req' = [req EXCEPT ![r].chan = h, ![r].said = d, ![r].saidIn = mode]
    BY <2>1, <2>2
  <2>5. req \in [Request -> RequestType] /\ req[r] \in RequestType
    BY <1>1 DEF ReqTyped
  <2> HIDE DEF r, d, h
  <2>6. req'[r].chan = h /\ \A s \in Request \ {r} : req'[s] = req[s]
    BY <1>1, <2>4, <2>5 DEF RequestType
  <2> QED BY <1>1, <2>3, <2>4, <2>6, PromptsKept DEF KeepsPrompts, Unanswered
<1>3. CASE r \notin pending
  BY <1>3 DEF HandleAnswer, NothingLost
<1> QED BY <1>2, <1>3

LEMMA PromptsStep ==
  ASSUME SessionInv, NothingLost, [Next]_vars
  PROVE  NothingLost'
<1>1. ConnTyped /\ ReqTyped /\ loop.plan \in BOOLEAN
  BY DEF SessionInv, RequestsInv, ConnTyped, LoopType
<1>2. CASE HandleAnswer
  BY <1>1, <1>2, AnswerKeepsPrompts
<1>3. CASE UNCHANGED <<req, pending>>
  BY <1>3 DEF NothingLost
<1>4. ASSUME NEW r \in Request, RequestStep(r) \/ \E k \in Kind, s \in Scope : Begin(r, k, s)
      PROVE  NothingLost'
  BY <1>1, <1>4, RequestKeepsPrompts, BeginKeepsPrompts, PromptsKept
<1> QED BY <1>2, <1>3, <1>4
        DEF Next, vars, Client, ReadFrame, Disconnect, ReaderStep, HandleCancel, HandleSetMode,
            HandleMessage, Forward, LoopStep, LoopSetMode, TakeMessage, BindTurn, StartTurn,
            EndTurn, LoopReturns, Withdraw

\* The tracker never keeps a prompt too long nor forgets one too early.
THEOREM TrackerIsExact == Spec => []TrackerExact
<1>1. Init => NothingLost
  BY DEF Init, NewRequest, NothingLost, Unanswered, Waiting
<1>2. SessionInv /\ NothingLost /\ [Next]_vars => NothingLost'
  BY PromptsStep
<1>3. SessionInv /\ NothingLost => TrackerExact
  BY DEF SessionInv, RequestsInv, ReqTyped, NothingLost, Unanswered, TrackerExact
<1> QED BY <1>1, <1>2, <1>3, SessionInvariant, PTL DEF Spec

-----------------------------------------------------------------------------
(* Verdicts are final.                                                     *)

\* Once a call has been let through or refused nothing changes its verdict: an
\* answer that comes after the timer, the cancel or the disconnect revives
\* nothing, and a timer or a cancel that comes after the yes takes nothing back.
VerdictsStand ==
  [][\A r \in Request : req[r].pc \in Settled => req'[r] = req[r]]_vars

LEMMA OneStep ==
  ASSUME ConnTyped, RequestsInv, NEW r \in Request,
         RequestStep(r) \/ \E k \in Kind, s \in Scope : Begin(r, k, s)
  PROVE  \E q : OneRequest(r, q)
<1>1. ReqTyped /\ loop.plan \in BOOLEAN /\ mode \in Mode
  BY DEF RequestsInv, ConnTyped, LoopType
<1>2. CASE \E k \in Kind, s \in Scope : Begin(r, k, s)
  BY <1>1, <1>2, BeginStep
<1>3. CASE Match(r)
  <2>1. CASE Admitting(req[r].scope) = {}
    BY <1>1, <1>3, <2>1, MovedStep DEF Match
  <2>2. CASE Admitting(req[r].scope) # {}
    <3>1. PICK x \in Admitting(req[r].scope) :
            req' = [req EXCEPT ![r].pc = "allowed", ![r].via = "rule", ![r].rule = x.by]
      BY <1>3, <2>2 DEF Match
    <3>2. x.by \in Request
      BY DEF Admitting, RequestsInv, RulesInv, Rule
    <3> QED BY <1>1, <1>3, <3>1, <3>2, MatchedStep DEF Match
  <2> QED BY <2>1, <2>2
<1>4. CASE Record(r)
  <2>1. pending' = pending /\ req[r].pc = "record" /\ (Goto(r, "allowed") \/ Refuse(r))
    BY <1>4 DEF Record
  <2>2. r \notin pending
    BY <1>1, <2>1, OldIsSound DEF Waiting
  <2> QED BY <1>1, <2>1, <2>2, MovedStep, RefusedIsSound DEF Settled
<1>5. CASE Gate(r) \/ Assess(r) \/ Ask(r) \/ Await(r) \/ TakeAnswer(r) \/ Abort(r) \/ Expire(r)
  BY <1>1, <1>5, GateStep, AssessStep, AskStep, AwaitStep, TakeAnswerStep, EndedStep
<1> QED BY <1>2, <1>3, <1>4, <1>5 DEF RequestStep

LEMMA SettledStay ==
  ASSUME ConnTyped, RequestsInv, [Next]_vars, NEW s \in Request, req[s].pc \in Settled
  PROVE  req'[s] = req[s]
<1>1. ASSUME NEW r \in Request, NEW q, OneRequest(r, q) PROVE req'[s] = req[s]
  BY <1>1, OthersStay DEF RequestsInv
<1>2. CASE HandleAnswer
  <2> DEFINE r == reader.frame.to
  <2>1. /\ reader.frame \in [t : {"answer"}, to : Request, decision : Decision]
        /\ mode \in Mode
    BY <1>2 DEF ConnTyped, ReaderHolds, HandleAnswer, Frame
  <2>2. CASE r \in pending
    BY <1>1, <1>2, <2>1, <2>2, AnswerStep DEF RequestsInv
  <2>3. CASE r \notin pending
    BY <1>2, <2>3 DEF HandleAnswer
  <2> QED BY <2>2, <2>3
<1>3. CASE UNCHANGED req
  BY <1>3
<1>4. ASSUME NEW r \in Request, RequestStep(r) \/ \E k \in Kind, x \in Scope : Begin(r, k, x)
      PROVE  req'[s] = req[s]
  BY <1>1, <1>4, OneStep
<1> QED BY <1>2, <1>3, <1>4
        DEF Next, vars, Client, ReadFrame, Disconnect, ReaderStep, HandleCancel, HandleSetMode,
            HandleMessage, Forward, LoopStep, LoopSetMode, TakeMessage, BindTurn, StartTurn,
            EndTurn, LoopReturns, Withdraw

\* What has been decided about a call stays decided.
THEOREM VerdictsAreFinal == Spec => VerdictsStand
<1>1. SessionInv /\ [Next]_vars =>
        [\A r \in Request : req[r].pc \in Settled => req'[r] = req[r]]_vars
  BY SettledStay DEF SessionInv
<1> QED BY <1>1, SessionInvariant, PTL DEF Spec, VerdictsStand
=============================================================================
