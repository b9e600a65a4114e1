------------------------------ MODULE Session ------------------------------
(***************************************************************************)
(* One WebSocket connection (api/http/ws.go): the reader goroutine, the    *)
(* main loop that runs one turn at a time, and the tool calls of a turn,   *)
(* which run in parallel and may each have to be authorized                *)
(* (tools/permctx.go) by an approval rule, by the permission mode or by    *)
(* the client's answer to a prompt that expires (ws_permtimeout.go).  The  *)
(* client may send any frame at any time; the main loop is deaf while a    *)
(* turn runs, the reader never is until its queue is full.                 *)
(***************************************************************************)
EXTENDS Approvals, Naturals, Sequences, FiniteSets

CONSTANTS
  Mode,             \* the permission modes the client switches between
  Kind,             \* the kinds of request, out of AllKinds
  Decision,         \* the decisions the client sends, out of AllDecisions
  UnattendedAfter,  \* PermissionTimeoutPolicy.UnattendedAfter
  QueueCap,         \* capacity of the frames channel
  MaxFrames         \* bound: frames the reader reads

AllModes == {"default", "strict", "allow-edits", "auto", "yolo", "plan"}

\* What the static policy makes of a call: it allows it (and plan mode does
\* too, or does not); asks, for a file edit, a script, a command outside the
\* project, an unreadable one, any other; denies it by profile; or the call
\* must be asked about every time: force-prompt tools, mandatory approvals,
\* request_permission, a subprocess's connection to a host.
AllKinds == {"read", "write", "edit", "script", "outside", "opaque", "other",
             "denied", "forced", "mandatory", "ahead", "egress"}
AllDecisions == {"allow", "always_allow", "allow_session", "allow_persistent", "deny"}

\* What a request was let through by.
Grounds == {"profile", "rule", "mode", "answer"}

ASSUME SessionAssumption ==
  /\ Mode \subseteq AllModes /\ Kind \subseteq AllKinds /\ Decision \subseteq AllDecisions
  /\ "default" \in Mode /\ "deny" \in Decision
  /\ UnattendedAfter \in Nat \ {0} /\ QueueCap \in Nat \ {0} /\ MaxFrames \in Nat
  /\ None \notin Request \cup AllModes \cup AllKinds \cup AllDecisions \cup Grounds

VARIABLES
  mode,      \* permModeState
  reader,    \* the reader goroutine: where it is, the frame in its hand
  queue,     \* the frames channel
  loop,      \* the main loop: where it is, and its turn
  req,       \* per request: where its authorization is
  pending,   \* permTracker.pending
  watch,     \* unattendedState
  connected, \* the connection's context is not done
  read,      \* the number of frames read
  chosen,    \* history: the mode of the last set_mode frame the reader read
  silence    \* history: prompts that expired since the last frame was read

vars == <<rules, mode, reader, queue, loop, req, pending, watch, connected,
          read, chosen, silence>>

Frame == [t : {"cancel", "message"}] \cup [t : {"set_mode"}, mode : Mode]
           \cup [t : {"answer"}, to : Request, decision : Decision]
Queued == [t : {"message"}] \cup [t : {"set_mode"}, mode : Mode]

NewRequest ==
  [pc |-> "unborn", kind |-> None, scope |-> None, plan |-> FALSE,
   declined |-> FALSE, asked |-> None, chan |-> None, ttl |-> None,
   via |-> None, rule |-> None, said |-> None, saidIn |-> None]

Init ==
  /\ RulesInit
  /\ mode = "default" /\ chosen = "default"
  /\ reader = [pc |-> "read", frame |-> None]
  /\ queue = <<>>
  /\ loop = [pc |-> "idle", bound |-> FALSE, cancelled |-> FALSE, plan |-> FALSE]
  /\ req = [r \in Request |-> NewRequest]
  /\ pending = {}
  /\ watch = [consecutive |-> 0, latched |-> FALSE]
  /\ connected = TRUE
  /\ read = 0
  /\ silence = 0

-----------------------------------------------------------------------------
(* The reader goroutine.                                                   *)

Attended == [consecutive |-> 0, latched |-> FALSE]

\* For the mutant: only an answer clears the latch.
ReadFrameDeaf(f) ==
  /\ reader.pc = "read" /\ connected /\ read < MaxFrames
  /\ f.t = "answer" => req[f.to].asked # None
  /\ reader' = [pc |-> "handle", frame |-> f]
  /\ watch' = IF f.t = "answer" THEN Attended ELSE watch
  /\ read' = read + 1
  /\ silence' = 0
  /\ UNCHANGED <<rules, mode, queue, loop, req, pending, connected, chosen>>

\* Any decoded frame is an interaction.  An answer can only name a prompt the
\* client has been shown.
ReadFrame(f) ==
  /\ reader.pc = "read" /\ connected /\ read < MaxFrames
  /\ f.t = "answer" => req[f.to].asked # None
  /\ reader' = [pc |-> "handle", frame |-> f]
  /\ watch' = Attended
  /\ read' = read + 1
  /\ silence' = 0
  /\ UNCHANGED <<rules, mode, queue, loop, req, pending, connected, chosen>>

ReadOn == reader' = [pc |-> "read", frame |-> None]

\* cancelTurn: fires what makeTurnCtx has published, if anything.
HandleCancel ==
  /\ reader.pc = "handle" /\ reader.frame.t = "cancel"
  /\ loop' = [loop EXCEPT !.cancelled = @ \/ loop.bound]
  /\ ReadOn
  /\ UNCHANGED <<rules, mode, queue, req, pending, watch, connected, read, chosen, silence>>

\* For the mutant: deliver passes every answer on.
HeardAnyway(r, d) == d

\* deliver: an allow of what the profile denies counts only in the mode the
\* question was asked in, or in yolo.
Heard(r, d) ==
  IF /\ d = "allow" /\ req[r].kind = "denied"
     /\ mode # req[r].asked /\ mode # "yolo"
  THEN "deny" ELSE d

\* An answer to a prompt that is gone, or was answered, is dropped.
HandleAnswer ==
  LET r == reader.frame.to
      d == reader.frame.decision
  IN /\ reader.pc = "handle" /\ reader.frame.t = "answer"
     /\ IF r \in pending
        THEN req' = [req EXCEPT ![r].chan = Heard(r, d),
                                ![r].said = d, ![r].saidIn = mode]
        ELSE UNCHANGED req
     /\ pending' = pending \ {r}
     /\ ReadOn
     /\ UNCHANGED <<rules, mode, queue, loop, watch, connected, read, chosen, silence>>

\* applySetMode in the reader, then the frame goes to the main loop as well.
HandleSetMode ==
  /\ reader.pc = "handle" /\ reader.frame.t = "set_mode"
  /\ mode' = reader.frame.mode
  /\ chosen' = reader.frame.mode
  /\ reader' = [reader EXCEPT !.pc = "forward"]
  /\ UNCHANGED <<rules, queue, loop, req, pending, watch, connected, read, silence>>

HandleMessage ==
  /\ reader.pc = "handle" /\ reader.frame.t = "message"
  /\ reader' = [reader EXCEPT !.pc = "forward"]
  /\ UNCHANGED <<rules, mode, queue, loop, req, pending, watch, connected, read, chosen, silence>>

\* For the mutant: a frame that finds the channel full is dropped.
ForwardOrDrop ==
  /\ reader.pc = "forward"
  /\ queue' = IF Len(queue) < QueueCap THEN Append(queue, reader.frame) ELSE queue
  /\ ReadOn
  /\ UNCHANGED <<rules, mode, loop, req, pending, watch, connected, read, chosen, silence>>

\* The reader blocks while the channel is full.
Forward ==
  /\ reader.pc = "forward" /\ Len(queue) < QueueCap
  /\ queue' = Append(queue, reader.frame)
  /\ ReadOn
  /\ UNCHANGED <<rules, mode, loop, req, pending, watch, connected, read, chosen, silence>>

\* A read error: the turn's context and the connection's are cancelled.
Disconnect ==
  /\ reader.pc = "read" /\ connected
  /\ reader' = [pc |-> "gone", frame |-> None]
  /\ connected' = FALSE
  /\ loop' = [loop EXCEPT !.cancelled = @ \/ loop.bound]
  /\ UNCHANGED <<rules, mode, queue, req, pending, watch, read, chosen, silence>>

-----------------------------------------------------------------------------
(* The main loop.                                                          *)

\* The canonical re-apply of a mode the reader has already applied.
LoopSetMode ==
  /\ loop.pc = "idle" /\ queue # <<>> /\ Head(queue).t = "set_mode"
  /\ mode' = Head(queue).mode
  /\ queue' = Tail(queue)
  /\ UNCHANGED <<rules, reader, loop, req, pending, watch, connected, read, chosen, silence>>

TakeMessage ==
  /\ loop.pc = "idle" /\ queue # <<>> /\ Head(queue).t = "message"
  /\ queue' = Tail(queue)
  /\ loop' = [loop EXCEPT !.pc = "prepare"]
  /\ UNCHANGED <<rules, mode, reader, req, pending, watch, connected, read, chosen, silence>>

\* makeTurnCtx: from here on a cancel frame finds the turn.
BindTurn ==
  /\ loop.pc = "prepare"
  /\ loop' = [loop EXCEPT !.pc = "bound", !.bound = TRUE, !.cancelled = FALSE]
  /\ UNCHANGED <<rules, mode, reader, queue, req, pending, watch, connected, read, chosen, silence>>

\* turnMode: whether the turn is a plan turn is decided once.
StartTurn ==
  /\ loop.pc = "bound"
  /\ loop' = [loop EXCEPT !.pc = "turn", !.plan = (mode = "plan")]
  /\ UNCHANGED <<rules, mode, reader, queue, req, pending, watch, connected, read, chosen, silence>>

Over == {"unborn", "allowed", "refused"}
InTurn(r) == req[r].kind # "egress"

\* For the mutant: a turn that was cancelled is not ended.
EndTurnUncancelled ==
  /\ loop.pc = "turn" /\ ~loop.cancelled
  /\ \A r \in Request : InTurn(r) => req[r].pc \in Over
  /\ loop' = [pc |-> "idle", bound |-> FALSE, cancelled |-> FALSE, plan |-> FALSE]
  /\ UNCHANGED <<rules, mode, reader, queue, req, pending, watch, connected, read, chosen, silence>>

\* The turn ends when the calls it made have returned.
EndTurn ==
  /\ loop.pc = "turn"
  /\ \A r \in Request : InTurn(r) => req[r].pc \in Over
  /\ loop' = [pc |-> "idle", bound |-> FALSE, cancelled |-> FALSE, plan |-> FALSE]
  /\ UNCHANGED <<rules, mode, reader, queue, req, pending, watch, connected, read, chosen, silence>>

LoopReturns ==
  /\ loop.pc = "idle" /\ ~connected
  /\ loop' = [loop EXCEPT !.pc = "gone"]
  /\ UNCHANGED <<rules, mode, reader, queue, req, pending, watch, connected, read, chosen, silence>>

-----------------------------------------------------------------------------
(* A request for authorization.                                            *)

Goto(r, pc) == req' = [req EXCEPT ![r].pc = pc]
Admit(r, via) == req' = [req EXCEPT ![r].pc = "allowed", ![r].via = via]

\* A refused request leaves nothing but a prompt the client may still answer.
Refuse(r) == req' = [req EXCEPT ![r] = [NewRequest EXCEPT
                                          !.pc = "refused", !.asked = req[r].asked]]

\* Requests no mode and no rule may answer: the callback always asks.
AskedAlways == {"forced", "mandatory", "ahead"}
PolicyAllows == {"read", "write"}

\* For the mutants: rules are tried before force-prompt tools are told apart;
\* the plan firewall looks at the live mode.
VerdictByRules(k, plan) ==
  IF k = "egress" THEN "match"
  ELSE IF plan /\ k # "read" THEN "refused"
  ELSE IF k \in PolicyAllows /\ mode # "strict" THEN "allowed"
  ELSE "match"
VerdictLive(k, plan) ==
  IF k = "egress" THEN "match"
  ELSE IF mode = "plan" /\ k # "read" THEN "refused"
  ELSE IF k \in AskedAlways THEN "gate"
  ELSE IF k \in PolicyAllows /\ mode # "strict" THEN "allowed"
  ELSE "match"

\* Authorize up to the approval rules.  The profile's word is final except in
\* strict mode; a plan turn refuses what is not read-only.
Verdict(k, plan) ==
  IF k = "egress" THEN "match"
  ELSE IF plan /\ k # "read" THEN "refused"
  ELSE IF k \in AskedAlways THEN "gate"
  ELSE IF k \in PolicyAllows /\ mode # "strict" THEN "allowed"
  ELSE "match"

Begin(r, k, s) ==
  /\ req[r].pc = "unborn"
  /\ IF k = "egress" THEN connected ELSE loop.pc = "turn"
  /\ LET v == Verdict(k, loop.plan) IN
     IF v = "refused" THEN Refuse(r)
     ELSE req' = [req EXCEPT ![r] = [NewRequest EXCEPT
                    !.pc = v, !.kind = k, !.scope = s, !.plan = loop.plan /\ k # "egress",
                    !.via = IF v = "allowed" THEN "profile" ELSE None]]
  /\ UNCHANGED <<rules, mode, reader, queue, loop, pending, watch, connected,
                 read, chosen, silence>>

\* Manager.Match.
Match(r) ==
  /\ req[r].pc = "match"
  /\ IF Admitting(req[r].scope) = {}
     THEN Goto(r, "gate") /\ UNCHANGED rules
     ELSE \E x \in Admitting(req[r].scope) :
            /\ Spend(x)
            /\ req' = [req EXCEPT ![r].pc = "allowed", ![r].via = "rule",
                                  ![r].rule = x.by]
  /\ UNCHANGED <<mode, reader, queue, loop, pending, watch, connected, read, chosen, silence>>

\* resolvePermissionMode, on the live mode.
ByMode(k, m) ==
  IF k \in AskedAlways \cup {"egress"} THEN "ask"
  ELSE CASE m = "plan" -> "refused"
         [] m = "auto" -> "assess"
         [] m = "yolo" -> IF k = "opaque" THEN "ask"
                          ELSE IF k = "outside" THEN "refused" ELSE "allowed"
         [] OTHER -> IF k = "denied" THEN "refused"
                     ELSE IF m = "allow-edits" /\ k = "edit" THEN "allowed" ELSE "ask"

Gate(r) ==
  /\ req[r].pc = "gate"
  /\ LET v == ByMode(req[r].kind, mode) IN
     CASE v = "allowed" -> Admit(r, "mode")
       [] v = "refused" -> Refuse(r)
       [] OTHER -> Goto(r, v)
  /\ UNCHANGED <<rules, mode, reader, queue, loop, pending, watch, connected,
                 read, chosen, silence>>

\* askAutoApproval: the model allows, or declines, fails or takes too long.  A
\* script it allows is remembered.
Assess(r) ==
  /\ req[r].pc = "assess"
  /\ \/ IF req[r].kind = "script"
        THEN req' = [req EXCEPT ![r].pc = "record", ![r].ttl = "persistent",
                                ![r].via = "mode"]
        ELSE Admit(r, "mode")
     \/ req' = [req EXCEPT ![r].pc = "ask", ![r].declined = TRUE]
  /\ UNCHANGED <<rules, mode, reader, queue, loop, pending, watch, connected,
                 read, chosen, silence>>

\* register and the permission_request frame; the mode is read again here.
Ask(r) ==
  /\ req[r].pc = "ask"
  /\ req' = [req EXCEPT ![r].pc = "asked",
               ![r].asked = IF req[r].kind = "egress" THEN "default" ELSE mode]
  /\ pending' = pending \cup {r}
  /\ UNCHANGED <<rules, mode, reader, queue, loop, watch, connected, read, chosen, silence>>

\* awaitDecision: a latched connection is not waited for.
Await(r) ==
  /\ req[r].pc = "asked"
  /\ IF watch.latched
     THEN Refuse(r) /\ pending' = pending \ {r}
     ELSE Goto(r, "wait") /\ UNCHANGED pending
  /\ UNCHANGED <<rules, mode, reader, queue, loop, watch, connected, read, chosen, silence>>

Sticky == {"always_allow", "allow_session", "allow_persistent"}
\* For the mutant: a person's sticky answer overrules the model for good.
OneShotNever(r, d) == d
OneShot(r, d) == IF req[r].declined /\ d \in Sticky THEN "allow" ELSE d

\* How long the rule lasts that a yes leaves, or None.
Leaves(k, d) ==
  IF d = "allow" \/ k \in {"forced", "mandatory"} THEN None
  ELSE IF d = "allow_persistent" \/ (k = "egress" /\ d = "always_allow")
       THEN "persistent" ELSE "session"

\* What the caller of the callback accepts as a yes.
Accepted(k) ==
  CASE k = "mandatory" -> {"allow"}
    [] k = "ahead" -> {"allow", "always_allow"}
    [] OTHER -> {"allow"} \cup Sticky

\* The answer came first.  request_permission leaves a rule for one use or for
\* the session, as the model asked.
TakeAnswer(r) ==
  /\ req[r].pc = "wait" /\ req[r].chan # None
  /\ LET k == req[r].kind
         d == OneShot(r, req[r].chan)
     IN IF d \notin Accepted(k)
        THEN Refuse(r)
        ELSE \E ttl \in IF k = "ahead" THEN {"once", "session"} ELSE {Leaves(k, d)} :
               req' = [req EXCEPT ![r].pc = IF ttl = None THEN "allowed" ELSE "record",
                                  ![r].ttl = ttl, ![r].via = "answer", ![r].chan = None]
  /\ pending' = pending \ {r}
  /\ watch' = Attended
  /\ UNCHANGED <<rules, mode, reader, queue, loop, connected, read, chosen, silence>>

Done(r) == ~connected \/ (InTurn(r) /\ loop.cancelled)

\* The turn or the connection ended first: refused, and not counted.
Abort(r) ==
  /\ req[r].pc = "wait" /\ Done(r)
  /\ Refuse(r)
  /\ pending' = pending \ {r}
  /\ UNCHANGED <<rules, mode, reader, queue, loop, watch, connected, read, chosen, silence>>

\* For the mutant: the prompts of a turn have no timer.
ExpireOutside(r) ==
  /\ req[r].pc = "wait" /\ ~InTurn(r)
  /\ Refuse(r)
  /\ pending' = pending \ {r}
  /\ LET n == watch.consecutive + 1 IN
     watch' = [consecutive |-> n, latched |-> watch.latched \/ n >= UnattendedAfter]
  /\ silence' = silence + 1
  /\ UNCHANGED <<rules, mode, reader, queue, loop, connected, read, chosen>>

\* The timer came first: refused, and counted.
Expire(r) ==
  /\ req[r].pc = "wait"
  /\ Refuse(r)
  /\ pending' = pending \ {r}
  /\ LET n == watch.consecutive + 1 IN
     watch' = [consecutive |-> n, latched |-> watch.latched \/ n >= UnattendedAfter]
  /\ silence' = silence + 1
  /\ UNCHANGED <<rules, mode, reader, queue, loop, connected, read, chosen>>

\* Manager.Record.  Only a persistent rule can fail to be written; a call is
\* refused then, while a connection to a host goes through unremembered.
Record(r) ==
  LET q == req[r] IN
  /\ q.pc = "record"
  /\ \/ /\ RecordRule([by |-> r, scope |-> q.scope, ttl |-> q.ttl])
        /\ Goto(r, "allowed")
     \/ /\ q.ttl = "persistent"
        /\ IF q.kind = "egress" THEN Goto(r, "allowed") ELSE Refuse(r)
        /\ UNCHANGED rules
  /\ UNCHANGED <<mode, reader, queue, loop, pending, watch, connected, read, chosen, silence>>

\* A rule is revoked, by a frame of this client or over the control socket, or
\* a session's rule has expired.
Withdraw ==
  /\ WithdrawRule
  /\ UNCHANGED <<mode, reader, queue, loop, req, pending, watch, connected, read, chosen, silence>>

-----------------------------------------------------------------------------
ReaderStep == HandleCancel \/ HandleAnswer \/ HandleSetMode \/ HandleMessage \/ Forward
LoopStep == LoopSetMode \/ TakeMessage \/ BindTurn \/ StartTurn \/ EndTurn \/ LoopReturns
RequestStep(r) == \/ Match(r) \/ Gate(r) \/ Assess(r) \/ Ask(r) \/ Await(r)
                  \/ TakeAnswer(r) \/ Abort(r) \/ Expire(r) \/ Record(r)
Client == (\E f \in Frame : ReadFrame(f)) \/ Disconnect

Next ==
  \/ Client \/ ReaderStep \/ LoopStep \/ Withdraw
  \/ \E r \in Request : RequestStep(r) \/ \E k \in Kind, s \in Scope : Begin(r, k, s)

Spec == Init /\ [][Next]_vars

\* Goroutines are scheduled, timers fire, and a model call returns: the client
\* has time limits of its own.  No client has to send anything.
Fairness ==
  /\ WF_vars(ReaderStep)
  /\ WF_vars(LoopStep)
  /\ \A r \in Request : WF_vars(RequestStep(r))

FairSpec == Spec /\ Fairness

-----------------------------------------------------------------------------
(* What should hold.                                                       *)

RequestType ==
  [pc : Over \cup {"match", "gate", "assess", "ask", "asked", "wait", "record"},
   kind : Kind \cup {None}, scope : Scope \cup {None}, plan : BOOLEAN,
   declined : BOOLEAN, asked : Mode \cup {"default", None}, chan : Decision \cup {None},
   ttl : TTL \cup {None}, via : Grounds \cup {None},
   rule : Request \cup {None}, said : Decision \cup {None}, saidIn : Mode \cup {None}]

\* Types; a prompt the tracker holds has a call that waits for it and no answer.
SessionTypeOK ==
  /\ rules \subseteq Rule
  /\ mode \in Mode /\ chosen \in Mode
  /\ reader \in [pc : {"read", "handle", "forward", "gone"}, frame : Frame \cup {None}]
  /\ queue \in Seq(Queued) /\ Len(queue) <= QueueCap
  /\ loop \in [pc : {"idle", "prepare", "bound", "turn", "gone"},
               bound : BOOLEAN, cancelled : BOOLEAN, plan : BOOLEAN]
  /\ req \in [Request -> RequestType]
  /\ pending \subseteq {r \in Request : req[r].pc \in {"asked", "wait"} /\ req[r].chan = None}
  /\ watch \in [consecutive : Nat, latched : BOOLEAN]
  /\ connected \in BOOLEAN
  /\ read \in 0..MaxFrames /\ silence \in Nat

Allowed(r) == req[r].pc = "allowed"
Yes == Decision \ {"deny"}

\* Force-prompt tools, mandatory approvals and pre-emptive grants run only on
\* a yes the client gave to that very prompt while it was open: no mode, rule,
\* expiry or answer to another prompt stands in for it (ws.go: "no
\* auto-approval, ever").
AskedIsAnswered ==
  \A r \in Request :
    Allowed(r) /\ (req[r].kind \in AskedAlways \/ req[r].via = "answer")
      => req[r].said \in Yes

\* What the profile denies is allowed only by yolo or the auto mode's model,
\* by a rule, or by an answer to a prompt the model's refusal led to; a plain
\* allow that came with a change of mode does not count (permTracker.deliver).
PolicyDenyKept ==
  \A r \in Request :
    Allowed(r) /\ req[r].kind = "denied" /\ req[r].via = "answer"
      => /\ req[r].declined
         /\ req[r].said = "allow" => req[r].saidIn \in {req[r].asked, "yolo"}

\* No standing rule comes of a call that must be asked about every time, or of
\* one the model declined and a person let pass once (oneShotIfAIDeclined).
GrantsAreMeant ==
  \A x \in rules : /\ req[x.by].kind \notin {"forced", "mandatory"}
                   /\ ~req[x.by].declined

\* A rule for one use admits one call, although calls run in parallel.
OnceUsedOnce ==
  \A r1, r2 \in Request :
    /\ r1 # r2 /\ req[r1].rule # None /\ req[r1].rule = req[r2].rule
    => req[req[r1].rule].ttl # "once"

\* Whatever the mode becomes during a plan turn and whatever rules there are,
\* the turn runs nothing but read-only calls.
PlanTurnReads ==
  \A r \in Request : Allowed(r) /\ req[r].plan => req[r].kind = "read"

\* The connection is latched only after UnattendedAfter prompts expired
\* without a frame of any kind in between.
LatchMeansSilence == watch.latched => silence >= UnattendedAfter

\* Once no switch of mode is under way the live mode is the last one chosen.
ModeSettles ==
  /\ reader.pc # "handle" /\ reader.pc # "forward"
  /\ \A i \in 1..Len(queue) : queue[i].t # "set_mode"
  => mode = chosen

\* A switch of mode takes effect while a turn is running.
SwitchTakesEffect == loop.pc = "turn" => mode = chosen

\* Every call that asks for permission gets an answer, if only from the timer.
RequestsEnd == \A r \in Request : (req[r].pc \notin Over) ~> (req[r].pc \in Over)

\* A full queue blocks the reader, which is what reads answers and cancels,
\* only until the turn has ended.
ReaderFreed == (reader.pc = "forward") ~> (reader.pc # "forward")

\* After a disconnect the handler returns, in whatever state it was.
HandlerReturns == ~connected ~> loop.pc = "gone"
=============================================================================
