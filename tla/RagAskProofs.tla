---------------------------- MODULE RagAskProofs ----------------------------
(***************************************************************************)
(* Proofs about RagAsk and EvaluatedQuestion, for any corpus, requests,    *)
(* generators, planners and disturbances.                                  *)
(***************************************************************************)
EXTENDS EvaluatedQuestion, NumberLemmas

-----------------------------------------------------------------------------
(* Runs and requests: the inductive invariant.                             *)

Working == {"lookup", "hydrate", "plan", "search", "gap", "check", "store", "answer"}
Statuses == {"none", "running", "succeeded", "failed", "deleted"}

\* The fields the argument is about are there.
Shape ==
    /\ runs = [r \in Requests |-> runs[r]]
    /\ \A r \in Requests :
          /\ runs[r] = [status |-> runs[r].status, strategy |-> runs[r].strategy,
                        items |-> runs[r].items, paths |-> runs[r].paths,
                        answer |-> runs[r].answer]
          /\ runs[r].status \in Statuses
    /\ DOMAIN req = Requests
    /\ \A r \in Requests : /\ {"stage", "reply"} \subseteq DOMAIN req[r]
                           /\ req[r].stage \in Working \cup {"idle", "duplicate", "load", "done"}

Blank(run) == run.items = <<>> /\ run.paths = {} /\ run.answer = NoAnswer

\* What the stage of a request says about its run.
RunOf(r) ==
    LET stage == req[r].stage
        status == runs[r].status
    IN /\ stage \in {"idle", "duplicate"} => status = "none"
       /\ stage \in Working \cup {"load"} => status # "none"
       /\ stage \in Working /\ IsAsk(r) => status \in {"running", "deleted"}
       /\ stage = "load" => Evaluated(r) /\ status \in {"succeeded", "failed"}
       /\ stage = "done" /\ status = "running" => req[r].reply.label \in {"crashed", "raised"}
       /\ status \in {"none", "deleted"} => Blank(runs[r])
       /\ status = "deleted" => IsAsk(r) /\ session = "deleted"
       /\ IsAsk(r) => (status = "succeeded" <=> runs[r].answer # NoAnswer)

RunsInv == \A r \in Requests : RunOf(r)

\* A message has one run.
MessagesInv ==
    \A r, s \in Requests :
       IsAsk(r) /\ IsAsk(s) /\ Exists(r) /\ Exists(s) /\ asked[r].mid = asked[s].mid => r = s

\* A request that was answered was told the answer of the run of its message,
\* which is there until the session is deleted.
RepliesInv ==
    \A r \in Requests : HasAnswer(req[r].reply) =>
       /\ session = "deleted" \/ RunsOfMessage(r) # {}
       /\ \A s \in RunsOfMessage(r) : /\ runs[s].status = "succeeded"
                                      /\ req[r].reply = Answered(runs[s])

SessionInv == session = "deleted" => \A r \in Requests : IsAsk(r) => ~Exists(r)

\* The runs of evaluated requests, in the order of their creation.
CreatedInv ==
    /\ created \in Seq(Requests)
    /\ \A k \in DOMAIN created : Evaluated(created[k]) /\ Exists(created[k])
    /\ \A r \in Requests : Evaluated(r) /\ Exists(r) => \E k \in DOMAIN created : created[k] = r

ConversationInv == Shape /\ RunsInv /\ MessagesInv /\ RepliesInv /\ SessionInv /\ CreatedInv

LEMMA ConversationInit == ASSUME Init PROVE ConversationInv
  <1> USE DEF Init, AskInit, Requests
  <1>1. /\ runs = [r \in Requests |-> runs[r]] /\ DOMAIN req = Requests
        /\ created = <<>> /\ session = "active"
        /\ \A r \in Requests :
              /\ runs[r] = NoRun
              /\ {"stage", "reply"} \subseteq DOMAIN req[r]
              /\ req[r].stage = "idle" /\ req[r].reply = NoAnswer
    BY DEF Resting
  <1>2. Shape /\ RunsInv
    BY <1>1 DEF Shape, RunsInv, RunOf, Blank, NoRun, Statuses, Working
  <1>3. \A r \in Requests : ~Exists(r) /\ ~HasAnswer(req[r].reply)
    BY <1>1 DEF Exists, NoRun, HasAnswer, Labels, NoAnswer
  <1>4. MessagesInv /\ RepliesInv /\ SessionInv
    BY <1>1, <1>3 DEF MessagesInv, RepliesInv, SessionInv
  <1>5. CreatedInv
    BY <1>1, <1>3 DEF CreatedInv
  <1> QED  BY <1>2, <1>4, <1>5 DEF ConversationInv

-----------------------------------------------------------------------------
(* Steps of one request, by what they do to its run.                       *)

Records == <<asked, created, session>>

\* Request r goes from its place to another, alone.
Moves(r) ==
    /\ DOMAIN req' = Requests
    /\ \A s \in Requests \ {r} : req'[s] = req[s]
    /\ {"stage", "reply"} \subseteq DOMAIN req'[r]
    /\ req'[r].stage \in Working \cup {"idle", "duplicate", "load", "done"}

\* Nothing new is told.
Silent(r) == HasAnswer(req'[r].reply) => req'[r].reply = req[r].reply

\* The run of the message of r, which has succeeded, is told again.
Replays(r) == \E s \in RunsOfMessage(r) : /\ runs[s].status = "succeeded"
                                          /\ req'[r].reply = Answered(runs[s])

\* A step that leaves the runs alone.
LEMMA MoveKeeps ==
    ASSUME ConversationInv, NEW r \in Requests, Moves(r), Silent(r) \/ Replays(r),
           UNCHANGED <<Records, runs>>, RunOf(r)'
    PROVE  ConversationInv'
  <1> USE DEF ConversationInv, Records
  <1>1. Requests' = Requests
    BY DEF Requests
  <1>2. Shape'
    BY <1>1 DEF Shape, Moves
  <1>3. \A s \in Requests : Exists(s)' = Exists(s) /\ IsAsk(s)' = IsAsk(s) /\ Evaluated(s)' = Evaluated(s)
    BY DEF Exists, IsAsk, Evaluated
  <1>4. RunsInv'
    BY <1>1, <1>3 DEF RunsInv, RunOf, Moves
  <1>5. MessagesInv' /\ SessionInv' /\ CreatedInv'
    BY <1>1, <1>3 DEF MessagesInv, SessionInv, CreatedInv
  <1>6. \A s \in Requests : RunsOfMessage(s)' = RunsOfMessage(s)
    BY <1>1, <1>3 DEF RunsOfMessage
  <1>7. RepliesInv'
    <2>1. \A s \in Requests \ {r} : req'[s].reply = req[s].reply
      BY DEF Moves
    <2>2. CASE Silent(r)
      BY <1>1, <1>6, <2>1, <2>2 DEF RepliesInv, HasAnswer, Answered, Silent
    <2>3. CASE Replays(r)
      <3>1. PICK s \in RunsOfMessage(r) : /\ runs[s].status = "succeeded"
                                          /\ req'[r].reply = Answered(runs[s])
        BY <2>3 DEF Replays
      <3>2. \A m \in RunsOfMessage(r) : m = s
        BY <3>1 DEF RunsOfMessage, MessagesInv
      <3>3. /\ RunsOfMessage(r) # {}
            /\ \A m \in RunsOfMessage(r) : /\ runs[m].status = "succeeded"
                                           /\ req'[r].reply = Answered(runs[m])
        BY <3>1, <3>2
      <3>4. \A q \in Requests \ {r} : HasAnswer(req'[q].reply) =>
               /\ session = "deleted" \/ RunsOfMessage(q) # {}
               /\ \A m \in RunsOfMessage(q) : /\ runs[m].status = "succeeded"
                                              /\ req'[q].reply = Answered(runs[m])
        BY <2>1 DEF RepliesInv, HasAnswer
      <3>5. \A q \in Requests : HasAnswer(req'[q].reply) =>
               /\ session' = "deleted" \/ RunsOfMessage(q)' # {}
               /\ \A m \in RunsOfMessage(q)' : /\ runs'[m].status = "succeeded"
                                               /\ req'[q].reply = Answered(runs'[m])
        BY <1>6, <3>3, <3>4
      <3> QED  BY <1>1, <3>5 DEF RepliesInv, HasAnswer, Answered
    <2> QED  BY <2>2, <2>3
  <1> QED  BY <1>2, <1>4, <1>5, <1>7

\* A step that writes the run of r, which stays.
Writes(r) ==
    /\ runs' = [s \in Requests |-> runs'[s]]
    /\ \A s \in Requests \ {r} : runs'[s] = runs[s]
    /\ runs'[r] = [status |-> runs'[r].status, strategy |-> runs'[r].strategy,
                   items |-> runs'[r].items, paths |-> runs'[r].paths,
                   answer |-> runs'[r].answer]
    /\ runs'[r].status \in {"running", "succeeded", "failed"}
    /\ Exists(r)

LEMMA WriteKeepsRuns ==
    ASSUME ConversationInv, NEW r \in Requests, Writes(r), UNCHANGED Records
    PROVE  /\ Requests' = Requests
           /\ \A s \in Requests : /\ Exists(s)' = Exists(s) /\ IsAsk(s)' = IsAsk(s)
                                  /\ Evaluated(s)' = Evaluated(s)
                                  /\ RunsOfMessage(s)' = RunsOfMessage(s)
           /\ MessagesInv' /\ SessionInv' /\ CreatedInv'
  <1> USE DEF ConversationInv, Records
  <1>1. Requests' = Requests
    BY DEF Requests
  <1>2. \A s \in Requests : Exists(s)' = Exists(s) /\ IsAsk(s)' = IsAsk(s) /\ Evaluated(s)' = Evaluated(s)
    BY DEF Exists, IsAsk, Evaluated, Writes
  <1>3. \A s \in Requests : RunsOfMessage(s)' = RunsOfMessage(s)
    BY <1>1, <1>2 DEF RunsOfMessage
  <1>4. MessagesInv' /\ SessionInv' /\ CreatedInv'
    BY <1>1, <1>2 DEF MessagesInv, SessionInv, CreatedInv
  <1> QED  BY <1>1, <1>2, <1>3, <1>4

\* A step of request q that writes run r, of another kind than an ask or of an ask
\* that has not succeeded before.
LEMMA WriteKeeps ==
    ASSUME ConversationInv, NEW r \in Requests, NEW q \in Requests, Moves(q), Writes(r),
           UNCHANGED Records,
           RunOf(r)', RunOf(q)',
           ~IsAsk(r) \/ runs[r].status # "succeeded",
           \/ Silent(q)
           \/ q = r /\ runs'[r].status = "succeeded" /\ req'[r].reply = Answered(runs'[r]) /\ IsAsk(r)
    PROVE  ConversationInv'
  <1> USE DEF ConversationInv, Records
  <1>1. /\ Requests' = Requests
        /\ \A s \in Requests : /\ Exists(s)' = Exists(s) /\ IsAsk(s)' = IsAsk(s)
                               /\ Evaluated(s)' = Evaluated(s)
                               /\ RunsOfMessage(s)' = RunsOfMessage(s)
        /\ MessagesInv' /\ SessionInv' /\ CreatedInv'
    BY WriteKeepsRuns
  <1>2. Shape'
    BY <1>1 DEF Shape, Moves, Writes, Statuses
  <1>3. RunsInv'
    BY <1>1 DEF RunsInv, RunOf, Moves, Writes
  <1>4. RepliesInv'
    <2> SUFFICES ASSUME NEW s \in Requests, HasAnswer(req'[s].reply)
                 PROVE  /\ session = "deleted" \/ RunsOfMessage(s) # {}
                        /\ \A m \in RunsOfMessage(s) : /\ runs'[m].status = "succeeded"
                                                       /\ req'[s].reply = Answered(runs'[m])
      BY <1>1 DEF RepliesInv, HasAnswer, Answered
    <2>1. CASE req'[s].reply = req[s].reply
      <3>1. /\ session = "deleted" \/ RunsOfMessage(s) # {}
            /\ \A m \in RunsOfMessage(s) : /\ runs[m].status = "succeeded"
                                           /\ req[s].reply = Answered(runs[m])
        BY <2>1 DEF RepliesInv, HasAnswer
      <3>2. r \notin RunsOfMessage(s)
        BY <3>1 DEF RunsOfMessage
      <3>3. \A m \in RunsOfMessage(s) : runs'[m] = runs[m]
        BY <3>2 DEF Writes, RunsOfMessage
      <3> QED  BY <2>1, <3>1, <3>3
    <2>2. CASE req'[s].reply # req[s].reply
      <3>1. /\ s = q /\ q = r /\ runs'[r].status = "succeeded" /\ IsAsk(r)
            /\ req'[r].reply = Answered(runs'[r])
        BY <2>2 DEF Moves, Silent
      <3>2. r \in RunsOfMessage(r)
        BY <3>1 DEF RunsOfMessage, Writes
      <3>3. \A m \in RunsOfMessage(r) : m = r
        BY <3>1, <3>2 DEF RunsOfMessage, MessagesInv
      <3> QED  BY <3>1, <3>2, <3>3
    <2> QED  BY <2>1, <2>2
  <1> QED  BY <1>1, <1>2, <1>3, <1>4

-----------------------------------------------------------------------------
(* The other steps: a run begins, the session ends, a message comes again.   *)

LEMMA CreateKeeps ==
    ASSUME ConversationInv, NEW r \in Requests, req[r].stage = "idle", CreateRun(r),
           IsAsk(r) => session = "active" /\ RunsOfMessage(r) = {}
    PROVE  ConversationInv'
  <1> USE DEF ConversationInv
  <1>1. /\ asked' = asked /\ session' = session /\ Requests' = Requests
        /\ created' = IF Evaluated(r) THEN Append(created, r) ELSE created
    BY DEF CreateRun, Requests
  <1>2. /\ runs[r].status = "none" /\ Blank(runs[r])
        /\ runs' = [s \in Requests |-> runs'[s]] /\ \A s \in Requests \ {r} : runs'[s] = runs[s]
        /\ runs'[r] = [status |-> "running", strategy |-> asked[r].strategy, items |-> runs[r].items,
                       paths |-> runs[r].paths, answer |-> runs[r].answer]
    <2>1. runs[r].status = "none" /\ Blank(runs[r])
      BY DEF RunsInv, RunOf
    <2>2. runs' = [runs EXCEPT ![r] = [@ EXCEPT !.status = "running", !.strategy = asked[r].strategy]]
      BY DEF CreateRun
    <2>3. /\ runs = [s \in Requests |-> runs[s]]
          /\ runs[r] = [status |-> runs[r].status, strategy |-> runs[r].strategy,
                        items |-> runs[r].items, paths |-> runs[r].paths,
                        answer |-> runs[r].answer]
      BY DEF Shape
    <2> QED  BY <2>1, <2>2, <2>3
  <1>3. /\ DOMAIN req' = Requests /\ \A s \in Requests \ {r} : req'[s] = req[s]
        /\ {"stage", "reply"} \subseteq DOMAIN req'[r]
        /\ req'[r].stage \in Working
        /\ req'[r].reply = req[r].reply
    BY DEF CreateRun, Shape, Working
  <1>4. Shape'
    BY <1>1, <1>2, <1>3 DEF Shape, Statuses
  <1>5. /\ Exists(r)' /\ ~Exists(r)
        /\ \A s \in Requests \ {r} : Exists(s)' = Exists(s)
        /\ \A s \in Requests : IsAsk(s)' = IsAsk(s) /\ Evaluated(s)' = Evaluated(s)
    BY <1>1, <1>2 DEF Exists, IsAsk, Evaluated
  <1>6. RunsInv'
    <2>1. \A s \in Requests \ {r} : RunOf(s)'
      BY <1>1, <1>2, <1>3, <1>5 DEF RunsInv, RunOf
    <2>2. RunOf(r)'
      BY <1>1, <1>2, <1>3, <1>5 DEF RunOf, Blank, Working
    <2> QED  BY <1>1, <2>1, <2>2 DEF RunsInv
  <1>7. MessagesInv' /\ SessionInv'
    BY <1>1, <1>5 DEF MessagesInv, SessionInv, RunsOfMessage
  <1>8. RepliesInv'
    <2> SUFFICES ASSUME NEW s \in Requests, HasAnswer(req'[s].reply)
                 PROVE  /\ session = "deleted" \/ RunsOfMessage(s)' # {}
                        /\ \A m \in RunsOfMessage(s)' : /\ runs'[m].status = "succeeded"
                                                        /\ req'[s].reply = Answered(runs'[m])
      BY <1>1 DEF RepliesInv, HasAnswer, Answered
    <2>1. req'[s].reply = req[s].reply
      BY <1>3
    <2>2. /\ session = "deleted" \/ RunsOfMessage(s) # {}
          /\ \A m \in RunsOfMessage(s) : /\ runs[m].status = "succeeded"
                                         /\ req[s].reply = Answered(runs[m])
      BY <2>1 DEF RepliesInv, HasAnswer
    <2>3. RunsOfMessage(s)' = RunsOfMessage(s)
      <3>1. CASE ~IsAsk(r)
        BY <1>1, <1>5, <3>1 DEF RunsOfMessage
      <3>2. CASE IsAsk(r)
        <4>1. RunsOfMessage(s) # {}
          BY <2>2, <3>2
        <4>2. asked[s].mid # asked[r].mid
          BY <3>2, <4>1 DEF RunsOfMessage
        <4> QED  BY <1>1, <1>5, <4>2 DEF RunsOfMessage
      <3> QED  BY <3>1, <3>2
    <2>4. \A m \in RunsOfMessage(s) : runs'[m] = runs[m]
      BY <1>2, <1>5 DEF RunsOfMessage
    <2> QED  BY <2>1, <2>2, <2>3, <2>4
  <1>9. CreatedInv'
    <2>1. CASE ~Evaluated(r)
      BY <1>1, <1>5, <2>1 DEF CreatedInv
    <2>2. CASE Evaluated(r)
      <3>1. created' = Append(created, r) /\ created \in Seq(Requests)
        BY <1>1, <2>2 DEF CreatedInv
      <3>2. /\ created' \in Seq(Requests) /\ Len(created') = Len(created) + 1
            /\ created'[Len(created) + 1] = r
            /\ \A k \in 1..Len(created) : created'[k] = created[k]
            /\ DOMAIN created = 1..Len(created) /\ DOMAIN created' = 1..(Len(created) + 1)
            /\ Len(created) \in Nat
        BY <3>1
      <3>3. \A k \in DOMAIN created : k \in DOMAIN created'
        BY <3>2
      <3>4. \A k \in DOMAIN created' : k \in DOMAIN created \/ k = Len(created) + 1
        BY <3>2
      <3>5. Len(created) + 1 \in DOMAIN created'
        BY <3>2
      <3>6. \A k \in DOMAIN created' :
               \E s \in Requests : created'[k] = s /\ Evaluated(s)' /\ Exists(s)'
        <4> TAKE k \in DOMAIN created'
        <4>1. CASE k \in DOMAIN created
          <5>1. created'[k] = created[k] /\ created[k] \in Requests
            BY <3>1, <3>2, <4>1
          <5>2. Evaluated(created[k]) /\ Exists(created[k])
            BY <4>1 DEF CreatedInv
          <5> QED  BY <1>5, <5>1, <5>2
        <4>2. CASE k = Len(created) + 1
          BY <1>5, <2>2, <3>2, <4>2
        <4> QED  BY <3>4, <4>1, <4>2
      <3>7. \A s \in Requests : Evaluated(s)' /\ Exists(s)' => \E k \in DOMAIN created' : created'[k] = s
        <4> SUFFICES ASSUME NEW s \in Requests, s # r, Evaluated(s), Exists(s)
                     PROVE  \E k \in DOMAIN created' : created'[k] = s
          BY <1>5, <3>2, <3>5
        <4>1. PICK k \in DOMAIN created : created[k] = s
          BY DEF CreatedInv
        <4> QED  BY <3>2, <3>3, <4>1
      <3>8. \A k \in DOMAIN created' : asked'[created'[k]].kind \in {"evaluate", "measure"}
                                     /\ runs'[created'[k]].status \in {"running", "succeeded", "failed"}
        BY <3>6 DEF Evaluated, Exists
      <3> QED  BY <1>1, <3>2, <3>8, <3>7 DEF CreatedInv, Evaluated, Exists
    <2> QED  BY <2>1, <2>2
  <1> QED  BY <1>4, <1>6, <1>7, <1>8, <1>9

\* A step of the corpus, of the cache, of a deletion that begins.
LEMMA OthersKeep ==
    ASSUME ConversationInv, UNCHANGED <<Records, runs, req>> PROVE ConversationInv'
  <1>1. /\ asked' = asked /\ created' = created /\ req' = req /\ runs' = runs /\ Requests' = Requests
        /\ session' = session
    BY DEF Records, Requests
  <1>2. \A s \in Requests : /\ RunsOfMessage(s)' = RunsOfMessage(s) /\ Exists(s)' = Exists(s)
                            /\ IsAsk(s)' = IsAsk(s) /\ Evaluated(s)' = Evaluated(s)
    BY <1>1 DEF RunsOfMessage, Exists, IsAsk, Evaluated
  <1>3. Shape'
    BY <1>1 DEF ConversationInv, Shape
  <1>4. RunsInv' /\ MessagesInv' /\ SessionInv' /\ CreatedInv'
    BY <1>1, <1>2 DEF ConversationInv, RunsInv, RunOf, MessagesInv, SessionInv, CreatedInv
  <1>5. RepliesInv'
    BY <1>1, <1>2 DEF ConversationInv, RepliesInv, HasAnswer, Answered
  <1> QED  BY <1>3, <1>4, <1>5 DEF ConversationInv

LEMMA FinishDeleteKeeps == ASSUME ConversationInv, FinishDelete PROVE ConversationInv'
  <1> USE DEF ConversationInv
  <1>1. /\ asked' = asked /\ created' = created /\ req' = req /\ Requests' = Requests
        /\ \A s \in Requests : IsAsk(s)' = IsAsk(s) /\ Evaluated(s)' = Evaluated(s)
    BY DEF FinishDelete, inputVars, Requests, IsAsk, Evaluated
  <1>2. CASE runs' = runs /\ session' = session
    BY <1>1, <1>2, OthersKeep DEF Records
  <1>3. CASE /\ session' = "deleted"
             /\ runs' = [r \in Requests |->
                           IF r \in {q \in Requests : IsAsk(q) /\ Exists(q)}
                           THEN [NoRun EXCEPT !.status = "deleted"] ELSE runs[r]]
    <2>1. \A r \in Requests :
             IF IsAsk(r) /\ Exists(r)
             THEN runs'[r] = [status |-> "deleted", strategy |-> "none", items |-> <<>>, paths |-> {},
                              answer |-> NoAnswer]
             ELSE runs'[r] = runs[r]
      BY <1>3 DEF NoRun
    <2>2. \A r \in Requests : IF IsAsk(r) THEN ~Exists(r)' ELSE Exists(r)' = Exists(r)
      BY <1>1, <2>1 DEF Exists
    <2>3. Shape'
      BY <1>1, <1>3, <2>1 DEF Shape, Statuses
    <2>4. RunsInv'
      <3> SUFFICES ASSUME NEW r \in Requests PROVE RunOf(r)'
        BY <1>1 DEF RunsInv
      <3>1. CASE IsAsk(r) /\ Exists(r)
        <4>1. runs'[r].status = "deleted" /\ runs'[r].answer = NoAnswer /\ Blank(runs'[r])
          BY <2>1, <3>1 DEF Blank
        <4>2. req[r].stage \notin {"idle", "duplicate", "load"}
          BY <3>1 DEF RunsInv, RunOf, Exists, IsAsk, Evaluated
        <4>3. req'[r] = req[r] /\ IsAsk(r)'
          BY <1>1, <3>1
        <4> QED  BY <1>3, <4>1, <4>2, <4>3 DEF RunOf
      <3>2. CASE ~(IsAsk(r) /\ Exists(r))
        <4>1. runs'[r] = runs[r]
          BY <2>1, <3>2
        <4> QED  BY <1>1, <1>3, <4>1 DEF RunsInv, RunOf
      <3> QED  BY <3>1, <3>2
    <2>5. MessagesInv' /\ SessionInv'
      BY <1>1, <2>2 DEF MessagesInv, SessionInv
    <2>6. RepliesInv'
      BY <1>1, <1>3, <2>2 DEF RepliesInv, RunsOfMessage
    <2>7. CreatedInv'
      <3>1. \A r \in Requests : Evaluated(r) => ~IsAsk(r)
        BY DEF Evaluated, IsAsk
      <3> QED  BY <1>1, <2>2, <3>1 DEF CreatedInv
    <2> QED  BY <2>3, <2>4, <2>5, <2>6, <2>7
  <1> QED
    <2> DEFINE asks == {q \in Requests : IsAsk(q) /\ Exists(q)}
    <2>1. \/ /\ runs' = [r \in Requests |->
                           IF r \in asks THEN [NoRun EXCEPT !.status = "deleted"] ELSE runs[r]]
             /\ session' = "deleted"
          \/ runs' = runs /\ session' = session
      BY DEF FinishDelete
    <2> QED  BY <1>2, <1>3, <2>1

LEMMA ArchiveKeeps ==
    ASSUME ConversationInv, ArchiveSession PROVE ConversationInv'
  <1>1. /\ asked' = asked /\ created' = created /\ req' = req /\ runs' = runs /\ Requests' = Requests
        /\ session # "deleted" /\ session' # "deleted"
    BY DEF ArchiveSession, inputVars, Requests
  <1>2. \A s \in Requests : /\ RunsOfMessage(s)' = RunsOfMessage(s) /\ Exists(s)' = Exists(s)
                            /\ IsAsk(s)' = IsAsk(s) /\ Evaluated(s)' = Evaluated(s)
    BY <1>1 DEF RunsOfMessage, Exists, IsAsk, Evaluated
  <1>3. Shape'
    BY <1>1 DEF ConversationInv, Shape
  <1> QED  BY <1>1, <1>2, <1>3 DEF ConversationInv, RunsInv, RunOf, MessagesInv, RepliesInv,
                                   SessionInv, CreatedInv, HasAnswer, Answered

-----------------------------------------------------------------------------
(* The actions.                                                            *)

\* A request goes on with its work.
GoesOn(r) ==
    /\ req[r].stage \in Working
    /\ DOMAIN req' = Requests
    /\ \A s \in Requests \ {r} : req'[s] = req[s]
    /\ {"stage", "reply"} \subseteq DOMAIN req'[r]
    /\ req'[r].stage \in Working
    /\ req'[r].reply = req[r].reply
    /\ UNCHANGED <<Records, runs>>

LEMMA GoingOnKeeps ==
    ASSUME ConversationInv, NEW r \in Requests, GoesOn(r) PROVE ConversationInv'
  <1>1. Moves(r) /\ Silent(r)
    BY DEF GoesOn, Moves, Silent
  <1>2. RunOf(r)'
    BY DEF ConversationInv, RunsInv, RunOf, GoesOn, Records, IsAsk, Evaluated, Working
  <1> QED  BY <1>1, <1>2, MoveKeeps DEF GoesOn

\* What a request that leaves its run alone ends with.
LEMMA RefusalKeeps ==
    ASSUME ConversationInv, NEW r \in Requests, NEW code, code \notin Labels, Refuse(r, code),
           runs[r].status = "running" => code \in {"crashed", "raised"},
           UNCHANGED <<Records, runs>>
    PROVE  ConversationInv'
  <1>1. /\ DOMAIN req' = Requests
        /\ \A s \in Requests \ {r} : req'[s] = req[s]
        /\ {"stage", "reply"} \subseteq DOMAIN req'[r]
        /\ req'[r].stage = "done" /\ req'[r].reply.label = code
    BY DEF ConversationInv, Shape, Refuse, End, Resting
  <1>2. Moves(r) /\ Silent(r)
    BY <1>1 DEF Moves, Silent, HasAnswer
  <1>3. RunOf(r)'
    BY <1>1 DEF ConversationInv, RunsInv, RunOf, Records, IsAsk, Evaluated, Working
  <1> QED  BY <1>2, <1>3, MoveKeeps

LEMMA RetrievalGoesOn ==
    ASSUME ConversationInv, NEW r \in Requests,
           \/ Lookup(r) \/ LookupFails(r) \/ Hydrate(r) \/ Search(r)
           \/ PlanCalls(r) \/ CallSearch(r) \/ CallOther(r) \/ TimesOut(r) \/ CheckTool(r)
           \/ Store(r) \/ StoreFails(r)
    PROVE  GoesOn(r)
  <1> USE DEF ConversationInv, Shape, Working, askVars, inputVars, Records, GoesOn
  <1>1. CASE Lookup(r)          BY <1>1 DEF Lookup
  <1>2. CASE LookupFails(r)     BY <1>2 DEF LookupFails
  <1>3. CASE Hydrate(r)         BY <1>3 DEF Hydrate
  <1>4. CASE Search(r)          BY <1>4 DEF Search, Observed
  <1>5. CASE PlanCalls(r)       BY <1>5 DEF PlanCalls
  <1>6. CASE CallSearch(r)      BY <1>6 DEF CallSearch
  <1>7. CASE CallOther(r)       BY <1>7 DEF CallOther
  <1>8. CASE TimesOut(r)        BY <1>8 DEF TimesOut
  <1>9. CASE CheckTool(r)       BY <1>9 DEF CheckTool
  <1>10. CASE Store(r)          BY <1>10 DEF Store
  <1>11. CASE StoreFails(r)     BY <1>11 DEF StoreFails
  <1> QED  BY <1>1, <1>2, <1>3, <1>4, <1>5, <1>6, <1>7, <1>8, <1>9, <1>10, <1>11

LEMMA GraphGoesOn ==
    ASSUME ConversationInv, NEW r \in Requests,
           \/ SearchDatabaseGraph(r) \/ SearchNeo4j(r) \/ Neo4jFails(r) \/ CheckProjection(r)
           \/ CheckGraph(r) \/ FallBack(r)
    PROVE  GoesOn(r)
  <1> USE DEF ConversationInv, Shape, Working, askVars, inputVars, Records, GoesOn
  <1>1. CASE SearchDatabaseGraph(r)
    <2>1. PICK steps \in 0..MaxDepth :
             req' = [req EXCEPT ![r] = [Observed(r) EXCEPT
                !.stage = "check",
                !.transient = @ \/ steps < MaxDepth,
                !.offered = DatabaseCandidates(DatabaseView(asked[r].filter), asked[r].query, steps)]]
      BY <1>1 DEF SearchDatabaseGraph
    <2>2. {"stage", "reply"} \subseteq DOMAIN Observed(r) /\ Observed(r).reply = req[r].reply
      BY DEF Observed
    <2> QED  BY <1>1, <2>1, <2>2 DEF SearchDatabaseGraph
  <1>2. CASE SearchNeo4j(r)          BY <1>2 DEF SearchNeo4j, Observed
  <1>3. CASE Neo4jFails(r)           BY <1>3 DEF Neo4jFails, ToDatabaseGraph
  <1>4. CASE CheckProjection(r)      BY <1>4 DEF CheckProjection, ToDatabaseGraph
  <1>5. CASE CheckGraph(r)           BY <1>5 DEF CheckGraph
  <1>6. CASE FallBack(r)             BY <1>6 DEF FallBack
  <1> QED  BY <1>1, <1>2, <1>3, <1>4, <1>5, <1>6

\* A request whose run was deleted cannot save what it found.
Abandons(r) ==
    /\ req[r].stage \in Working
    /\ RunGone(r)
    /\ Refuse(r, "error")
    /\ UNCHANGED <<Records, runs>>

LEMMA GivingUpKeeps ==
    ASSUME ConversationInv, NEW r \in Requests, Abandons(r) PROVE ConversationInv'
  BY RefusalKeeps DEF Abandons, RunGone, Labels

LEMMA CheckDirectGoesOn ==
    ASSUME ConversationInv, NEW r \in Requests, CheckDirect(r) PROVE GoesOn(r) \/ Abandons(r)
  <1> DEFINE attempt == Attempt(r)
             items == DirectItems(asked[r].query, attempt.strategy, attempt.cands)
  <1>1. UNCHANGED <<Records, runs>> /\ req[r].stage = "check"
    BY DEF CheckDirect, askVars, inputVars, Records
  <1>2. CASE RunGone(r) /\ items # <<>>
    <2>1. Refuse(r, "error")
      BY <1>2 DEF CheckDirect
    <2> QED  BY <1>1, <1>2, <2>1 DEF Abandons, Working
  <1>3. CASE ~(RunGone(r) /\ items # <<>>)
    <2>1. req' = [req EXCEPT ![r] = [@ EXCEPT
                  !.stage = "store", !.items = items, !.seen = Sighted(r, attempt),
                  !.offered = <<>>]]
      BY <1>3 DEF CheckDirect
    <2> HIDE DEF items, attempt
    <2> QED  BY <1>1, <2>1 DEF ConversationInv, Shape, Working, GoesOn
  <1> QED  BY <1>2, <1>3

LEMMA CheckAgenticGoesOn ==
    ASSUME ConversationInv, NEW r \in Requests, CheckAgentic(r) PROVE GoesOn(r) \/ Abandons(r)
  <1> DEFINE attempts == Append(req[r].attempts, Attempt(r))
             seen == Sighted(r, Attempt(r))
  <1>1. UNCHANGED <<Records, runs>> /\ req[r].stage = "check"
    BY DEF CheckAgentic, askVars, inputVars, Records
  <1>2. \/ RunGone(r) /\ Refuse(r, "error")
        \/ req' = [req EXCEPT ![r] = [@ EXCEPT
                    !.stage = "store", !.items = AgenticItems(asked[r].query, attempts), !.seen = seen,
                    !.locked = TRUE, !.attempts = <<>>, !.offered = <<>>]]
        \/ \E fallback \in NextFallbacks(attempts, ModelPlanned) :
              req' = [req EXCEPT ![r] = [@ EXCEPT
                !.stage = "search", !.strategy = fallback, !.attempts = attempts,
                !.seen = seen, !.offered = <<>>]]
    BY DEF CheckAgentic
  <1> HIDE DEF attempts, seen
  <1>3. CASE RunGone(r) /\ Refuse(r, "error")
    BY <1>1, <1>3 DEF Abandons, Working
  <1>4. CASE req' = [req EXCEPT ![r] = [@ EXCEPT
                    !.stage = "store", !.items = AgenticItems(asked[r].query, attempts), !.seen = seen,
                    !.locked = TRUE, !.attempts = <<>>, !.offered = <<>>]]
    <2> QED  BY <1>1, <1>4 DEF ConversationInv, Shape, Working, GoesOn
  <1>5. CASE \E fallback \in NextFallbacks(attempts, ModelPlanned) :
              req' = [req EXCEPT ![r] = [@ EXCEPT
                !.stage = "search", !.strategy = fallback, !.attempts = attempts,
                !.seen = seen, !.offered = <<>>]]
    <2> QED  BY <1>1, <1>5 DEF ConversationInv, Shape, Working, GoesOn
  <1> QED  BY <1>2, <1>3, <1>4, <1>5

LEMMA FinishLoopGoesOn ==
    ASSUME ConversationInv, NEW r \in Requests, FinishLoop(r) PROVE GoesOn(r) \/ Abandons(r)
  <1>1. UNCHANGED <<Records, runs>> /\ req[r].stage = "plan"
    BY DEF FinishLoop, askVars, inputVars, Records
  <1>2. CASE RunGone(r)
    <2>1. Refuse(r, "error")
      BY <1>2 DEF FinishLoop
    <2> QED  BY <1>1, <1>2, <2>1 DEF Abandons, Working
  <1>3. CASE ~RunGone(r)
    <2> QED  BY <1>1, <1>3 DEF FinishLoop, ConversationInv, Shape, Working, GoesOn
  <1> QED  BY <1>2, <1>3

\* The steps that check what was found.
LEMMA CheckGoesOn ==
    ASSUME ConversationInv, NEW r \in Requests,
           \/ CheckDirect(r) \/ CheckAgentic(r) \/ GraphWithoutRun(r)
           \/ FinishLlmTools(r) \/ FinishLangChain(r) \/ FinishLangGraph(r)
    PROVE  GoesOn(r) \/ Abandons(r)
  <1>1. CASE GraphWithoutRun(r)
    BY <1>1 DEF GraphWithoutRun, Abandons, Working, askVars, inputVars, Records
  <1> QED  BY <1>1, CheckDirectGoesOn, CheckAgenticGoesOn, FinishLoopGoesOn
              DEF FinishLlmTools, FinishLangChain, FinishLangGraph

\* Requests that end without a word to their run: refused before they have one,
\* or because their process died or raised.
LEMMA RefusalsKeep ==
    ASSUME ConversationInv, NEW r \in Requests,
           Unavailable(r) \/ Crash(r) \/ RaiseUnmarked(r)
    PROVE  ConversationInv'
  <1> USE DEF askVars, inputVars, Records, Labels
  <1>1. CASE Unavailable(r)
    <2>1. runs[r].status # "running"
      BY <1>1 DEF Unavailable, ConversationInv, RunsInv, RunOf
    <2>2. \E code \in {"archived_session_readonly", "not_found"} : Refuse(r, code)
      BY <1>1 DEF Unavailable
    <2> QED  BY <1>1, <2>1, <2>2, RefusalKeeps DEF Unavailable
  <1>2. CASE Crash(r)
    BY <1>2, RefusalKeeps DEF Crash
  <1>3. CASE RaiseUnmarked(r)
    BY <1>3, RefusalKeeps DEF RaiseUnmarked
  <1> QED  BY <1>1, <1>2, <1>3

LEMMA FailRolledBackKeeps ==
    ASSUME ConversationInv, NEW r \in Requests, req[r].stage \in Working, FailRolledBack(r),
           UNCHANGED Records
    PROVE  ConversationInv'
  <1>1. Refuse(r, "error") /\ runs' = [runs EXCEPT ![r].status = IF @ = "running" THEN "failed" ELSE @]
    BY DEF FailRolledBack
  <1>2. CASE runs[r].status = "running"
    <2>1. runs'[r] = [status |-> "failed", strategy |-> runs[r].strategy, items |-> runs[r].items,
                      paths |-> runs[r].paths, answer |-> runs[r].answer]
      BY <1>1, <1>2 DEF ConversationInv, Shape
    <2>2. Writes(r)
      BY <1>1, <1>2, <2>1 DEF Writes, ConversationInv, Shape, Exists
    <2>3. Moves(r) /\ Silent(r) /\ req'[r].stage = "done"
      BY <1>1 DEF ConversationInv, Shape, Refuse, End, Resting, Moves, Silent, HasAnswer, Labels
    <2>4. RunOf(r)'
      BY <1>2, <2>1, <2>3 DEF ConversationInv, RunsInv, RunOf, Records, IsAsk, Evaluated, Working
    <2> QED  BY <1>2, <2>2, <2>3, <2>4, WriteKeeps
  <1>3. CASE runs[r].status # "running"
    <2>1. runs' = runs
      <3>1. [runs EXCEPT ![r].status = runs[r].status] = runs
        BY DEF ConversationInv, Shape
      <3> QED  BY <1>1, <1>3, <3>1
    <2> QED  BY <1>1, <1>3, <2>1, RefusalKeeps DEF Labels
  <1> QED  BY <1>2, <1>3

\* An end that writes another status and something told that is no answer.
LEMMA EndWithRunKeeps ==
    ASSUME ConversationInv, NEW r \in Requests, NEW run, NEW code, UNCHANGED Records,
           req[r].stage \in Working \cup {"load"}, runs[r].status # "deleted",
           runs' = [runs EXCEPT ![r] = run], Refuse(r, code), code \notin Labels,
           run = [status |-> run.status, strategy |-> run.strategy, items |-> run.items,
                  paths |-> run.paths, answer |-> run.answer],
           run.status \in {"succeeded", "failed"},
           IsAsk(r) => run.status = "failed" /\ run.answer = NoAnswer
    PROVE  ConversationInv'
  <1>1. Writes(r)
    BY DEF Writes, ConversationInv, Shape, Exists, RunsInv, RunOf, Statuses
  <1>2. Moves(r) /\ Silent(r) /\ req'[r].stage = "done"
    BY DEF ConversationInv, Shape, Refuse, End, Resting, Moves, Silent, HasAnswer, Labels
  <1>3. runs'[r] = run
    BY DEF ConversationInv, Shape
  <1>4. RunOf(r)'
    BY <1>2, <1>3 DEF RunOf, Records, IsAsk, Evaluated, Working
  <1>5. ~IsAsk(r) \/ runs[r].status # "succeeded"
    BY DEF ConversationInv, RunsInv, RunOf, IsAsk, Evaluated
  <1> QED  BY <1>1, <1>2, <1>4, <1>5, WriteKeeps

LEMMA DuplicatesKeep ==
    ASSUME ConversationInv, NEW r \in Requests, Duplicate(r) \/ ResolveDuplicate(r)
    PROVE  ConversationInv'
  <1>1. UNCHANGED <<Records, runs>> /\ req[r].stage \in {"idle", "duplicate"}
    BY DEF Duplicate, ResolveDuplicate, askVars, inputVars, Records
  <1>2. runs[r].status = "none" /\ Blank(runs[r])
    BY <1>1 DEF ConversationInv, RunsInv, RunOf
  <1>3. CASE req' = [req EXCEPT ![r].stage = "duplicate"]
    <2>1. Moves(r) /\ Silent(r) /\ req'[r].stage = "duplicate"
      BY <1>3 DEF ConversationInv, Shape, Moves, Silent
    <2>2. RunOf(r)'
      BY <1>1, <1>2, <2>1 DEF ConversationInv, RunsInv, RunOf, Records, IsAsk, Working
    <2> QED  BY <1>1, <2>1, <2>2, MoveKeeps
  <1>4. ASSUME NEW s \in RunsOfMessage(r), End(r, Classify(r, s)) PROVE ConversationInv'
    <2>1. CASE \E code \in {"client_message_conflict", "request_in_progress", "conflict"} :
                  Classify(r, s) = [label |-> code]
      BY <1>1, <1>2, <1>4, <2>1, RefusalKeeps DEF Refuse, Labels
    <2>2. CASE runs[s].status = "succeeded" /\ Classify(r, s) = Answered(runs[s])
      <3>1. /\ Moves(r) /\ req'[r].stage = "done" /\ req'[r].reply = Answered(runs[s])
        BY <1>4, <2>2 DEF ConversationInv, Shape, Moves, End, Resting
      <3>2. RunOf(r)'
        BY <1>1, <1>2, <3>1 DEF ConversationInv, RunsInv, RunOf, Records, IsAsk, Working
      <3>3. Replays(r)
        BY <2>2, <3>1 DEF Replays
      <3> QED  BY <1>1, <3>1, <3>2, <3>3, MoveKeeps
    <2>3. runs[s].status \in {"running", "failed", "succeeded"}
      BY DEF RunsOfMessage, Exists
    <2> QED  BY <2>1, <2>2, <2>3 DEF Classify
  <1> QED  BY <1>3, <1>4 DEF Duplicate, ResolveDuplicate

LEMMA BeginKeeps ==
    ASSUME ConversationInv, NEW r \in Requests,
           \/ BeginSearch(r) \/ BeginAsk(r) \/ BeginGraphSearch(r) \/ BeginGraphAsk(r)
           \/ BeginOrchestrated(r)
    PROVE  ConversationInv'
  <1>1. /\ req[r].stage = "idle" /\ CreateRun(r)
        /\ IsAsk(r) => session = "active" /\ RunsOfMessage(r) = {}
    BY DEF BeginSearch, BeginAsk, BeginGraphSearch, BeginGraphAsk, BeginOrchestrated, MayAppend,
           OwnsTransaction, IsAsk
  <1> QED  BY <1>1, CreateKeeps

\* What ends with an error after a rollback.
LEMMA RollbacksKeep ==
    ASSUME ConversationInv, NEW r \in Requests, RetrievalFails(r) \/ AskWithoutRun(r)
    PROVE  ConversationInv'
  <1>1. req[r].stage \in Working /\ FailRolledBack(r) /\ UNCHANGED Records
    BY DEF RetrievalFails, AskWithoutRun, inputVars, Records, Working
  <1> QED  BY <1>1, FailRolledBackKeeps

LEMMA VictimKeeps ==
    ASSUME ConversationInv, NEW p \in Requests \cup {Deletion}, DeadlockVictim(p)
    PROVE  ConversationInv'
  <1>1. UNCHANGED Records
    BY DEF DeadlockVictim, inputVars, Records
  <1>2. CASE p = Deletion
    BY <1>1, <1>2, OthersKeep DEF DeadlockVictim
  <1>3. CASE p \in Requests /\ p # Deletion
    <2>1. CASE /\ req[p].stage = "store" /\ req' = [req EXCEPT ![p].stage = "answer"]
               /\ runs' = runs
      <3>1. GoesOn(p)
        BY <1>1, <2>1, <1>3 DEF GoesOn, ConversationInv, Shape, Working
      <3> QED  BY <1>3, <3>1, GoingOnKeeps
    <2>2. CASE req[p].stage = "answer" /\ FailRolledBack(p)
      BY <1>1, <1>3, <2>2, FailRolledBackKeeps DEF Working
    <2>3. CASE req[p].stage = "duplicate" /\ Refuse(p, "error") /\ runs' = runs
      <3>1. runs[p].status = "none"
        BY <1>3, <2>3 DEF ConversationInv, RunsInv, RunOf
      <3> QED  BY <1>1, <1>3, <2>3, <3>1, RefusalKeeps DEF Labels
    <2> QED  BY <1>3, <2>1, <2>2, <2>3 DEF DeadlockVictim
  <1> QED  BY <1>2, <1>3

LEMMA FoundRun ==
    ASSUME ConversationInv, NEW r \in Requests
    PROVE  Found(r) = [status |-> "succeeded", strategy |-> Recorded(r), items |-> req[r].items,
                       paths |-> req[r].paths, answer |-> runs[r].answer]
  <1>1. runs[r] = [status |-> runs[r].status, strategy |-> runs[r].strategy,
                   items |-> runs[r].items, paths |-> runs[r].paths,
                   answer |-> runs[r].answer]
    BY DEF ConversationInv, Shape
  <1>2. ASSUME NEW run, run = Found(r)
        PROVE  run = [status |-> "succeeded", strategy |-> Recorded(r), items |-> req[r].items,
                      paths |-> req[r].paths, answer |-> runs[r].answer]
    BY <1>1, <1>2 DEF Found
  <1> QED  BY <1>2

LEMMA EndSearchKeeps ==
    ASSUME ConversationInv, NEW r \in Requests, EndSearch(r) PROVE ConversationInv'
  <1>1. /\ runs' = [runs EXCEPT ![r] = Found(r)] /\ Refuse(r, "found") /\ UNCHANGED Records
        /\ req[r].stage \in Working /\ ~IsAsk(r)
    BY DEF EndSearch, inputVars, Records, Working, IsAsk
  <1>2. Found(r) = [status |-> "succeeded", strategy |-> Recorded(r), items |-> req[r].items,
                    paths |-> req[r].paths, answer |-> runs[r].answer]
    BY FoundRun
  <1>3. runs[r].status # "deleted"
    BY <1>1 DEF ConversationInv, RunsInv, RunOf
  <1> QED  BY <1>1, <1>2, <1>3, EndWithRunKeeps DEF Labels

LEMMA FailCommittedKeeps ==
    ASSUME ConversationInv, NEW r \in Requests, NEW items, FailCommitted(r, items),
           req[r].stage = "answer", ~RunGone(r), UNCHANGED Records
    PROVE  ConversationInv'
  <1> DEFINE run == [status |-> "failed", strategy |-> Recorded(r), items |-> items,
                     paths |-> req[r].paths, answer |-> NoAnswer]
  <1>1. runs' = [runs EXCEPT ![r] = run] /\ Refuse(r, "error")
    BY DEF FailCommitted
  <1> QED  BY <1>1, EndWithRunKeeps DEF Labels, RunGone, Working

\* The answer that is stored is the one that is told.
LEMMA WriteAnswerKeeps ==
    ASSUME ConversationInv, NEW r \in Requests, WriteAnswer(r) PROVE ConversationInv'
  <1>1. req[r].stage = "answer" /\ IsAsk(r) /\ ~RunGone(r) /\ UNCHANGED Records
    BY DEF WriteAnswer, inputVars, Records
  <1>2. runs[r].status = "running"
    BY <1>1 DEF ConversationInv, RunsInv, RunOf, Working, RunGone
  <1>3. ASSUME NEW items, FailCommitted(r, items) PROVE ConversationInv'
    BY <1>1, <1>3, FailCommittedKeeps
  <1>4. ASSUME NEW run, NEW items, NEW answer, answer # NoAnswer,
               run = [status |-> "succeeded", strategy |-> Recorded(r), items |-> items,
                      paths |-> req[r].paths, answer |-> answer],
               runs' = [runs EXCEPT ![r] = run], End(r, Answered(run))
        PROVE  ConversationInv'
    <2>1. runs'[r] = run /\ Writes(r)
      BY <1>2, <1>4 DEF Writes, ConversationInv, Shape, Exists
    <2>2. Moves(r) /\ req'[r].stage = "done" /\ req'[r].reply = Answered(runs'[r])
      BY <1>4, <2>1 DEF ConversationInv, Shape, End, Resting, Moves
    <2>3. runs'[r].status = "succeeded" /\ runs'[r].answer # NoAnswer
      BY <1>4, <2>1
    <2>4. RunOf(r)'
      BY <1>1, <2>2, <2>3 DEF RunOf, Records, IsAsk, Working
    <2> QED  BY <1>1, <1>2, <2>1, <2>2, <2>3, <2>4, WriteKeeps
  <1>5. PICK context \in Contexts(r) : \E answer \in Generated(r, context) :
             LET run == [status |-> "succeeded", strategy |-> Recorded(r), items |-> context.items,
                         paths |-> req[r].paths, answer |-> answer]
             IN IF answer = NoAnswer THEN FailCommitted(r, context.items)
                ELSE runs' = [runs EXCEPT ![r] = run] /\ End(r, Answered(run))
    BY DEF WriteAnswer
  <1>6. PICK answer \in Generated(r, context) :
             LET run == [status |-> "succeeded", strategy |-> Recorded(r), items |-> context.items,
                         paths |-> req[r].paths, answer |-> answer]
             IN IF answer = NoAnswer THEN FailCommitted(r, context.items)
                ELSE runs' = [runs EXCEPT ![r] = run] /\ End(r, Answered(run))
    BY <1>5
  <1> QED  BY <1>3, <1>4, <1>6

LEMMA AnswersKeep ==
    ASSUME ConversationInv, NEW r \in Requests, NoContext(r) \/ WriteAnswer(r)
    PROVE  ConversationInv'
  <1>1. CASE NoContext(r)
    BY <1>1, FailCommittedKeeps DEF NoContext, inputVars, Records
  <1> QED  BY <1>1, WriteAnswerKeeps

-----------------------------------------------------------------------------
(* The questions of evaluations.                                           *)

LEMMA FinishEvaluatedSearchKeeps ==
    ASSUME ConversationInv, NEW r \in Requests, FinishEvaluatedSearch(r) PROVE ConversationInv'
  <1>1. /\ runs' = [runs EXCEPT ![r] = Found(r)] /\ UNCHANGED Records
        /\ req[r].stage \in Working /\ Evaluated(r)
    BY DEF FinishEvaluatedSearch, inputVars, Records, Working
  <1>2. Found(r) = [status |-> "succeeded", strategy |-> Recorded(r), items |-> req[r].items,
                    paths |-> req[r].paths, answer |-> runs[r].answer]
    BY FoundRun
  <1>3. runs[r].status # "deleted" /\ ~IsAsk(r)
    BY <1>1 DEF ConversationInv, RunsInv, RunOf, IsAsk, Evaluated
  <1>4. CASE Refuse(r, "measured")
    BY <1>1, <1>2, <1>3, <1>4, EndWithRunKeeps DEF Labels
  <1>5. CASE req' = [req EXCEPT ![r] = [Resting("load", NoAnswer) EXCEPT
                        !.items = req[r].items, !.seen = req[r].seen, !.lost = req[r].lost]]
    <2>2. Writes(r) /\ runs'[r].status = "succeeded"
      BY <1>1, <1>2, <1>3 DEF Writes, ConversationInv, Shape, Exists, RunsInv, RunOf, Statuses, Working
    <2>3. Moves(r) /\ Silent(r) /\ req'[r].stage = "load"
      BY <1>5 DEF ConversationInv, Shape, Resting, Moves, Silent, HasAnswer, Labels, NoAnswer
    <2>4. RunOf(r)'
      BY <1>1, <1>3, <2>2, <2>3 DEF RunOf, Records, IsAsk, Evaluated, Working
    <2> QED  BY <1>1, <1>3, <2>2, <2>3, <2>4, WriteKeeps
  <1> QED  BY <1>4, <1>5 DEF FinishEvaluatedSearch

\* A run that is loaded is of an evaluated request and finished.
LEMMA Loaded ==
    ASSUME ConversationInv, NEW r \in Requests, req[r].stage = "load"
    PROVE  /\ Evaluated(r) /\ ~IsAsk(r) /\ runs[r].status \in {"succeeded", "failed"}
           /\ runs[r] = [status |-> runs[r].status, strategy |-> runs[r].strategy,
                         items |-> runs[r].items, paths |-> runs[r].paths,
                         answer |-> runs[r].answer]
  BY DEF ConversationInv, Shape, RunsInv, RunOf, Evaluated, IsAsk

LEMMA OutcomesNoLabels ==
    \A outcome \in {"no_context_found", "citation_build_failed", "generation_failed"} :
       Outcome[outcome] \notin Labels
  BY DEF Outcome, Labels

LEMMA MarkNothingFoundKeeps ==
    ASSUME ConversationInv, NEW r \in Requests, req[r].stage = "load", MarkNothingFound(r),
           UNCHANGED Records
    PROVE  ConversationInv'
  <1> DEFINE run == [status |-> "failed", strategy |-> runs[r].strategy, items |-> runs[r].items,
                     paths |-> runs[r].paths, answer |-> runs[r].answer]
  <1>1. /\ runs' = [runs EXCEPT ![r].status = "failed"]
        /\ Refuse(r, Outcome["no_context_found"]) /\ Outcome["no_context_found"] \notin Labels
    BY OutcomesNoLabels DEF MarkNothingFound
  <1>2. ASSUME NEW new, new = [runs[r] EXCEPT !.status = "failed"] PROVE new = run
    <2>1. runs[r] = [status |-> runs[r].status, strategy |-> runs[r].strategy,
                     items |-> runs[r].items, paths |-> runs[r].paths,
                     answer |-> runs[r].answer]
      BY Loaded
    <2> QED  BY <1>2, <2>1
  <1>3. runs' = [runs EXCEPT ![r] = [runs[r] EXCEPT !.status = "failed"]]
    BY <1>1
  <1>4. runs' = [runs EXCEPT ![r] = run]
    BY <1>2, <1>3
  <1> QED  BY <1>1, <1>4, Loaded, EndWithRunKeeps

LEMMA NothingFoundKeeps ==
    ASSUME ConversationInv, NEW r \in Requests, EvaluatedNothing(r) \/ GraphFoundNothing(r)
    PROVE  ConversationInv'
  <1>1. req[r].stage = "load" /\ UNCHANGED Records
    BY DEF EvaluatedNothing, GraphFoundNothing, FoundNothing, inputVars, Records
  <1>2. CASE MarkNothingFound(r)
    BY <1>1, <1>2, MarkNothingFoundKeeps
  <1>3. CASE Refuse(r, "skipped") /\ UNCHANGED runs
    BY <1>1, <1>3, Loaded, RefusalKeeps DEF Labels
  <1> QED  BY <1>2, <1>3 DEF EvaluatedNothing, GraphFoundNothing

LEMMA LatestRunExists ==
    ASSUME ConversationInv, NEW r \in Requests, Evaluated(r), Exists(r)
    PROVE  LatestRun(r) \in Requests /\ Evaluated(LatestRun(r)) /\ Exists(LatestRun(r))
  <1> DEFINE ofCase == {k \in DOMAIN created : asked[created[k]].mid = asked[r].mid}
  <1>1. /\ Len(created) \in Nat /\ DOMAIN created = 1..Len(created)
        /\ \A k \in DOMAIN created : created[k] \in Requests
    BY DEF ConversationInv, CreatedInv
  <1>2. ofCase \subseteq 1..Len(created) /\ ofCase # {}
    BY <1>1 DEF ConversationInv, CreatedInv
  <1>3. Max(ofCase) \in ofCase
    <2> HIDE DEF ofCase
    <2> QED  BY <1>1, <1>2, MaxGreatest
  <1>4. LatestRun(r) = created[Max(ofCase)] /\ Max(ofCase) \in DOMAIN created
    BY <1>3 DEF LatestRun
  <1> QED  BY <1>1, <1>4 DEF ConversationInv, CreatedInv

LEMMA MarkLatestFailedKeeps ==
    ASSUME ConversationInv, NEW r \in Requests, req[r].stage = "load",
           NEW outcome \in {"citation_build_failed", "generation_failed"},
           MarkLatestFailed(r, outcome), UNCHANGED Records
    PROVE  ConversationInv'
  <1>1. Evaluated(r) /\ ~IsAsk(r) /\ Exists(r) /\ runs[r].status \in {"succeeded", "failed"}
    BY Loaded DEF Exists
  <1>2. PICK l \in Requests : l = LatestRun(r) /\ Evaluated(l) /\ ~IsAsk(l) /\ Exists(l)
    BY <1>1, LatestRunExists DEF Evaluated, IsAsk
  <1>3. /\ runs' = [runs EXCEPT ![l].status = "failed"]
        /\ Refuse(r, Outcome[outcome]) /\ Outcome[outcome] \notin Labels
    BY <1>2, OutcomesNoLabels DEF MarkLatestFailed
  <1>4. /\ Writes(l) /\ runs'[l].status = "failed" /\ runs'[l].answer = runs[l].answer
        /\ runs'[r].status \in {"succeeded", "failed"}
    BY <1>1, <1>2, <1>3 DEF Writes, ConversationInv, Shape
  <1>5. Moves(r) /\ Silent(r) /\ req'[r].stage = "done" /\ \A s \in Requests \ {r} : req'[s] = req[s]
    BY <1>3 DEF ConversationInv, Shape, Refuse, End, Resting, Moves, Silent, HasAnswer
  <1>6. RunOf(r)'
    BY <1>1, <1>4, <1>5 DEF RunOf, Records, IsAsk, Evaluated, Working
  <1>7. RunOf(l)'
    <2>1. CASE l = r
      BY <1>6, <2>1
    <2>2. CASE l # r
      <3>1. req'[l] = req[l]
        BY <1>2, <1>5, <2>2
      <3>2. req[l].stage \notin {"idle", "duplicate"}
        BY <1>2 DEF ConversationInv, RunsInv, RunOf, Exists
      <3> QED  BY <1>2, <1>4, <3>1, <3>2 DEF RunOf, Records, IsAsk, Evaluated
    <2> QED  BY <2>1, <2>2
  <1> QED  BY <1>2, <1>4, <1>5, <1>6, <1>7, WriteKeeps

LEMMA StrictOutcomes ==
    ASSUME NEW output, NEW pack
    PROVE  Strict(output, pack) \in {"generation_failed", "abstained", "answered", "citation_build_failed"}
  BY DEF Strict

LEMMA AnswerLoadedKeeps ==
    ASSUME ConversationInv, NEW r \in Requests, AnswerLoaded(r) PROVE ConversationInv'
  <1>1. req[r].stage = "load" /\ UNCHANGED Records
    BY DEF AnswerLoaded, inputVars, Records
  <1>2. PICK result \in EvaluatedResults(LoadedContext(req[r].items), req[r].seen) :
             IF result.outcome \in {"answered", "abstained"} THEN MarkAnswered(r, result)
             ELSE MarkLatestFailed(r, result.outcome)
    BY DEF AnswerLoaded
  <1>3. result.outcome \in {"generation_failed", "abstained", "answered", "citation_build_failed"}
    BY StrictOutcomes DEF EvaluatedResults
  <1>4. CASE result.outcome \in {"answered", "abstained"}
    <2> DEFINE answer == IF result.outcome = "answered" THEN result.answer ELSE runs[r].answer
               run == [status |-> "succeeded", strategy |-> runs[r].strategy,
                       items |-> runs[r].items, paths |-> runs[r].paths, answer |-> answer]
    <2>1. /\ runs' = [runs EXCEPT ![r].status = "succeeded", ![r].answer = answer]
          /\ Refuse(r, result.outcome) /\ result.outcome \notin Labels
      <3>1. MarkAnswered(r, result)
        BY <1>2, <1>4
      <3>2. runs' = [runs EXCEPT ![r].status = "succeeded",
                      ![r].answer = IF result.outcome = "answered" THEN result.answer ELSE @]
        BY <3>1 DEF MarkAnswered
      <3>3. runs' = [runs EXCEPT ![r].status = "succeeded", ![r].answer = answer]
        BY <3>2
      <3> QED  BY <1>4, <3>1, <3>3 DEF MarkAnswered, Labels
    <2>2. runs[r] = [status |-> runs[r].status, strategy |-> runs[r].strategy,
                     items |-> runs[r].items, paths |-> runs[r].paths,
                     answer |-> runs[r].answer] /\ ~IsAsk(r) /\ runs[r].status # "deleted"
      BY <1>1, Loaded
    <2> HIDE DEF answer
    <2>3. runs' = [runs EXCEPT ![r] = run]
      <3>1. ASSUME NEW new, new = [runs[r] EXCEPT !.status = "succeeded", !.answer = answer]
            PROVE  new = run
        BY <2>2, <3>1
      <3>2. runs' = [runs EXCEPT ![r] = [runs[r] EXCEPT !.status = "succeeded", !.answer = answer]]
        BY <2>1 DEF ConversationInv, Shape
      <3> QED  BY <3>1, <3>2
    <2> QED  BY <1>1, <2>1, <2>2, <2>3, EndWithRunKeeps
  <1>5. CASE result.outcome \notin {"answered", "abstained"}
    BY <1>1, <1>2, <1>3, <1>5, MarkLatestFailedKeeps
  <1> QED  BY <1>4, <1>5

\* The three orchestrators, whose questions have a transaction of their own.
LEMMA OwnRun ==
    ASSUME ConversationInv, NEW r \in Requests, OwnsTransaction(r), req[r].stage = "answer",
           NEW run, NEW status \in {"succeeded", "failed"}, NEW items, NEW answer,
           run = [runs[r] EXCEPT !.status = status, !.items = items, !.answer = answer],
           runs' = [runs EXCEPT ![r] = run], NEW code, code \notin Labels, Refuse(r, code),
           UNCHANGED Records
    PROVE  ConversationInv'
  <1>1. /\ runs[r] = [status |-> runs[r].status, strategy |-> runs[r].strategy,
                      items |-> runs[r].items, paths |-> runs[r].paths,
                      answer |-> runs[r].answer]
        /\ ~IsAsk(r) /\ runs[r].status # "deleted"
    BY DEF ConversationInv, Shape, RunsInv, RunOf, OwnsTransaction, IsAsk
  <1>2. run = [status |-> status, strategy |-> runs[r].strategy, items |-> items,
               paths |-> runs[r].paths, answer |-> answer]
    BY <1>1
  <1> QED  BY <1>1, <1>2, EndWithRunKeeps DEF Working

LEMMA ToolsFoundNothingKeeps ==
    ASSUME ConversationInv, NEW r \in Requests, ToolsFoundNothing(r) PROVE ConversationInv'
  <1>1. /\ req[r].stage = "answer" /\ OwnsTransaction(r) /\ UNCHANGED Records
        /\ runs' = [runs EXCEPT ![r] = [@ EXCEPT !.status = "failed", !.items = Budgeted(r)]]
        /\ Refuse(r, Outcome["no_context_found"]) /\ Outcome["no_context_found"] \notin Labels
    BY OutcomesNoLabels DEF ToolsFoundNothing, inputVars, Records
  <1>2. /\ runs = [s \in Requests |-> runs[s]]
        /\ runs[r] = [status |-> runs[r].status, strategy |-> runs[r].strategy,
                      items |-> runs[r].items, paths |-> runs[r].paths,
                      answer |-> runs[r].answer]
    BY DEF ConversationInv, Shape
  <1>3. ASSUME NEW run, run = [runs[r] EXCEPT !.status = "failed", !.items = Budgeted(r)]
        PROVE  run = [runs[r] EXCEPT !.status = "failed", !.items = Budgeted(r), !.answer = runs[r].answer]
    BY <1>2, <1>3
  <1>4. PICK run : run = [runs[r] EXCEPT !.status = "failed", !.items = Budgeted(r)]
    OBVIOUS
  <1>5. runs' = [runs EXCEPT ![r] = run]
    BY <1>1, <1>2, <1>4
  <1>6. run = [runs[r] EXCEPT !.status = "failed", !.items = Budgeted(r), !.answer = runs[r].answer]
    BY <1>3, <1>4
  <1> QED  BY <1>1, <1>5, <1>6, OwnRun

LEMMA AnswerToolsKeeps ==
    ASSUME ConversationInv, NEW r \in Requests, AnswerTools(r) PROVE ConversationInv'
  <1>1. req[r].stage = "answer" /\ OwnsTransaction(r) /\ UNCHANGED Records
    BY DEF AnswerTools, inputVars, Records
  <1>2. PICK context \in Contexts(r) :
          \E result \in EvaluatedResults(context.pack, req[r].seen) :
             LET outcome == result.outcome
                 failed == outcome \notin {"answered", "abstained"}
             IN /\ runs' = [runs EXCEPT ![r] = [runs[r] EXCEPT
                      !.status = IF failed THEN "failed" ELSE "succeeded", !.items = context.items,
                      !.answer = IF outcome = "answered" THEN result.answer ELSE @]]
                /\ Refuse(r, IF failed THEN Outcome[outcome] ELSE outcome)
    BY DEF AnswerTools
  <1>3. PICK result \in EvaluatedResults(context.pack, req[r].seen) :
             LET outcome == result.outcome
                 failed == outcome \notin {"answered", "abstained"}
             IN /\ runs' = [runs EXCEPT ![r] = [runs[r] EXCEPT
                      !.status = IF failed THEN "failed" ELSE "succeeded", !.items = context.items,
                      !.answer = IF outcome = "answered" THEN result.answer ELSE @]]
                /\ Refuse(r, IF failed THEN Outcome[outcome] ELSE outcome)
    BY <1>2
  <1> DEFINE outcome == result.outcome
             failed == outcome \notin {"answered", "abstained"}
             status == IF failed THEN "failed" ELSE "succeeded"
             answer == IF outcome = "answered" THEN result.answer ELSE runs[r].answer
             code == IF failed THEN Outcome[outcome] ELSE outcome
  <1>4. outcome \in {"generation_failed", "abstained", "answered", "citation_build_failed"}
    BY StrictOutcomes DEF EvaluatedResults
  <1>5. code \notin Labels /\ Refuse(r, code)
    BY <1>3, <1>4, OutcomesNoLabels DEF Labels
  <1>6. status \in {"succeeded", "failed"}
    OBVIOUS
  <1>7. runs' = [runs EXCEPT ![r] = [runs[r] EXCEPT !.status = status, !.items = context.items,
                                              !.answer = IF outcome = "answered" THEN result.answer ELSE @]]
    BY <1>3
  <1>8. PICK run : run = [runs[r] EXCEPT !.status = status, !.items = context.items, !.answer = answer]
    OBVIOUS
  <1>9. runs' = [runs EXCEPT ![r] = run]
    <2>1. run = [runs[r] EXCEPT !.status = status, !.items = context.items,
                               !.answer = IF outcome = "answered" THEN result.answer ELSE @]
      BY <1>8
    <2> QED  BY <1>7, <2>1
  <1> HIDE DEF code, status, answer, outcome
  <1> QED  BY <1>1, <1>5, <1>6, <1>8, <1>9, OwnRun

-----------------------------------------------------------------------------
(* Every step keeps the invariant.                                         *)

LEMMA StepKeeps ==
    ASSUME ConversationInv, NEW r \in Requests, Step(r) PROVE ConversationInv'
  <1>1. CASE Unavailable(r) \/ Crash(r)
    BY <1>1, RefusalsKeep
  <1>2. CASE Duplicate(r) \/ ResolveDuplicate(r)
    BY <1>2, DuplicatesKeep
  <1>3. CASE BeginSearch(r) \/ BeginAsk(r) \/ BeginGraphSearch(r) \/ BeginGraphAsk(r)
    BY <1>3, BeginKeeps
  <1>4. CASE \/ Lookup(r) \/ LookupFails(r) \/ Hydrate(r) \/ Search(r)
             \/ PlanCalls(r) \/ CallSearch(r) \/ CallOther(r) \/ TimesOut(r) \/ CheckTool(r)
             \/ Store(r) \/ StoreFails(r)
    BY <1>4, RetrievalGoesOn, GoingOnKeeps
  <1>5. CASE \/ SearchDatabaseGraph(r) \/ SearchNeo4j(r) \/ Neo4jFails(r) \/ CheckProjection(r)
             \/ CheckGraph(r) \/ FallBack(r)
    BY <1>5, GraphGoesOn, GoingOnKeeps
  <1>6. CASE RetrievalFails(r) \/ AskWithoutRun(r)
    BY <1>6, RollbacksKeep
  <1>7. CASE \/ CheckDirect(r) \/ CheckAgentic(r) \/ GraphWithoutRun(r)
             \/ FinishLlmTools(r) \/ FinishLangChain(r) \/ FinishLangGraph(r)
    BY <1>7, CheckGoesOn, GoingOnKeeps, GivingUpKeeps
  <1>8. CASE FinishSearch(r) \/ FinishGraphSearch(r)
    BY <1>8, EndSearchKeeps DEF FinishSearch, FinishGraphSearch
  <1>9. CASE NoContextFound(r) \/ NoGraphContextFound(r) \/ Answer(r) \/ GraphAnswer(r)
    BY <1>9, AnswersKeep DEF NoContextFound, NoGraphContextFound, Answer, GraphAnswer
  <1> QED  BY <1>1, <1>2, <1>3, <1>4, <1>5, <1>6, <1>7, <1>8, <1>9 DEF Step

LEMMA EvaluationStepKeeps ==
    ASSUME ConversationInv, NEW r \in Requests, EvaluationStep(r) PROVE ConversationInv'
  <1>1. CASE FinishEvaluatedSearch(r)
    BY <1>1, FinishEvaluatedSearchKeeps
  <1>2. CASE EvaluatedNothing(r) \/ GraphFoundNothing(r)
    BY <1>2, NothingFoundKeeps
  <1>3. CASE AnswerEvaluated(r) \/ AnswerOverGraph(r)
    BY <1>3, AnswerLoadedKeeps DEF AnswerEvaluated, AnswerOverGraph
  <1>4. CASE BeginLlmTools(r) \/ BeginLangChain(r) \/ BeginLangGraph(r)
    BY <1>4, BeginKeeps DEF BeginLlmTools, BeginLangChain, BeginLangGraph
  <1>5. CASE LlmToolsFoundNothing(r) \/ LangChainFoundNothing(r) \/ LangGraphFoundNothing(r)
    BY <1>5, ToolsFoundNothingKeeps DEF LlmToolsFoundNothing, LangChainFoundNothing,
                                        LangGraphFoundNothing
  <1>6. CASE AnswerLlmTools(r) \/ AnswerLangChain(r) \/ AnswerLangGraph(r)
    BY <1>6, AnswerToolsKeeps DEF AnswerLlmTools, AnswerLangChain, AnswerLangGraph
  <1>7. CASE RaiseUnmarked(r)
    BY <1>7, RefusalsKeep
  <1> QED  BY <1>1, <1>2, <1>3, <1>4, <1>5, <1>6, <1>7 DEF EvaluationStep

LEMMA ConversationStep ==
    ASSUME ConversationInv, [EvaluationNext]_vars PROVE ConversationInv'
  <1>1. ASSUME NEW r \in Requests, Step(r) \/ EvaluationStep(r) PROVE ConversationInv'
    BY <1>1, StepKeeps, EvaluationStepKeeps
  <1>2. CASE UNCHANGED <<askVars, req>>
    BY <1>2, OthersKeep DEF askVars, inputVars, Records
  <1>3. CASE ArchiveSession
    BY <1>3, ArchiveKeeps
  <1>4. CASE BeginDelete
    BY <1>4, OthersKeep DEF BeginDelete, inputVars, Records
  <1>5. CASE FinishDelete
    BY <1>5, FinishDeleteKeeps
  <1>6. ASSUME NEW p \in Requests \cup {Deletion}, DeadlockVictim(p) PROVE ConversationInv'
    BY <1>6, VictimKeeps
  <1>7. Done \/ UNCHANGED vars => UNCHANGED <<askVars, req>>
    BY DEF Done, vars
  <1> QED  BY <1>1, <1>2, <1>3, <1>4, <1>5, <1>6, <1>7 DEF EvaluationNext, Next

LEMMA ConversationProperty == ASSUME ConversationInv PROVE ConversationConsistent
  <1> USE DEF ConversationInv
  <1>1. \A r, s \in Requests :
          IsAsk(r) /\ IsAsk(s) /\ Exists(r) /\ Exists(s) /\ asked[r].mid = asked[s].mid => r = s
    BY DEF MessagesInv
  <1>2. \A r \in Requests :
          /\ req[r].stage = "done" /\ runs[r].status = "running" => req[r].reply.label \in {"crashed", "raised"}
          /\ IsAsk(r) => (runs[r].status = "succeeded" <=> runs[r].answer # NoAnswer)
          /\ HasAnswer(req[r].reply) =>
                \A s \in RunsOfMessage(r) : /\ runs[s].status = "succeeded"
                                            /\ req[r].reply = Answered(runs[s])
    BY DEF RunsInv, RunOf, RepliesInv
  <1>3. session = "deleted" =>
          \A r \in Requests : IsAsk(r) => ~Exists(r) /\ runs[r].items = <<>> /\ runs[r].paths = {}
    <2> SUFFICES ASSUME session = "deleted", NEW r \in Requests, IsAsk(r)
                 PROVE  ~Exists(r) /\ runs[r].items = <<>> /\ runs[r].paths = {}
      OBVIOUS
    <2>1. ~Exists(r)
      BY DEF SessionInv
    <2>2. runs[r].status \in {"none", "deleted"}
      BY <2>1 DEF Exists, Shape, Statuses
    <2> QED  BY <2>1, <2>2 DEF RunsInv, RunOf, Blank
  <1> QED  BY <1>1, <1>2, <1>3 DEF ConversationConsistent

\* A conversation is consistent in spite of retries of a message, failures, deaths of
\* a process, and the archival and the deletion of its session at any moment: a message
\* has one run, finished unless its process died or raised, with an answer exactly when
\* it succeeded; a replay tells what the first reply told; a deleted session has nothing
\* left (_classify_duplicate, _mark_failed_safely, delete_session).
THEOREM ConversationsStayConsistent == EvaluationSpec => []ConversationConsistent
  <1>1. Init => ConversationInv
    BY ConversationInit
  <1>2. ConversationInv /\ [EvaluationNext]_vars => ConversationInv'
    BY ConversationStep
  <1>3. ConversationInv => ConversationConsistent
    BY ConversationProperty
  <1> QED  BY <1>1, <1>2, <1>3, PTL DEF EvaluationSpec

-----------------------------------------------------------------------------
(* What an evaluation reports: the inductive invariant.                    *)

AskedAlike == \E s \in Scenarios : asked = s.asks

\* What is true of an evaluated request on its way and at its end.
OutcomeOf(r) ==
    LET stage == req[r].stage
        reply == req[r].reply
        run == runs[r]
    IN /\ stage # "done" => reply = NoAnswer
       /\ stage = "duplicate" => IsAsk(r)
       /\ Evaluated(r) /\ stage = "done" => Exists(r)
       /\ Evaluated(r) /\ stage \in Working =>
             /\ run.status \in {"running", "failed"} /\ run.answer = NoAnswer
             /\ OwnsTransaction(r) => run.status = "running"
       /\ Evaluated(r) /\ stage = "load" =>
             /\ asked[r].kind = "evaluate" /\ ~ByTools(r) /\ run.answer = NoAnswer
             /\ run.status = "succeeded" \/ Overwritten(r)
       /\ Reports(r) => RecordedOutcome(r) /\ (reply.label = "raised" => OwnsTransaction(r))

OutcomesInv == ConversationInv /\ AskedAlike /\ \A r \in Requests : OutcomeOf(r)

LEMMA OutcomesInit == ASSUME Init PROVE OutcomesInv
  <1>1. ConversationInv /\ AskedAlike
    BY ConversationInit DEF Init, AskInit, AskedAlike
  <1>2. \A r \in Requests : req[r].stage = "idle" /\ req[r].reply = NoAnswer
    BY DEF Init, AskInit, Resting, Requests
  <1> QED  BY <1>1, <1>2 DEF OutcomesInv, OutcomeOf, Working, Reports

\* Request q is at work; another run may have been created, for q.
Works(q) ==
    /\ req[q].stage # "done"
    /\ \A s \in Requests \ {q} : req'[s] = req[s]
    /\ asked' = asked
    /\ created' = created \/ (created' = Append(created, q) /\ ~Exists(q))

LEMMA LatestStays ==
    ASSUME ConversationInv, NEW q \in Requests, Works(q), NEW s \in Requests, s # q,
           Evaluated(s), Exists(s), LatestRun(s) # s
    PROVE  LatestRun(s)' # s
  <1>1. CASE created' = created
    BY <1>1 DEF LatestRun, Works
  <1>2. CASE created' = Append(created, q)
    <2> DEFINE ofCase == {k \in DOMAIN created : asked[created[k]].mid = asked[s].mid}
               later == {k \in DOMAIN created' : asked[created'[k]].mid = asked[s].mid}
               n == Len(created)
    <2>1. /\ created \in Seq(Requests) /\ n \in Nat /\ DOMAIN created = 1..n
          /\ DOMAIN created' = 1..(n + 1) /\ created'[n + 1] = q
          /\ \A k \in 1..n : created'[k] = created[k]
      BY <1>2 DEF ConversationInv, CreatedInv
    <2>2. ofCase \subseteq 1..n /\ ofCase # {}
      BY <2>1 DEF ConversationInv, CreatedInv
    <2>3. later \subseteq 1..(n + 1) /\ ofCase \subseteq later
      BY <2>1
    <2>4. LatestRun(s)' = created'[Max(later)] /\ LatestRun(s) = created[Max(ofCase)]
      BY DEF LatestRun, Works
    <2>5. Max(ofCase) \in ofCase
      <3> HIDE DEF ofCase
      <3> QED  BY <2>1, <2>2, MaxGreatest
    <2>6. Max(later) \in later /\ \A k \in later : k <= Max(later)
      <3> HIDE DEF ofCase, later
      <3>1. n + 1 \in Nat
        BY <2>1
      <3> QED  BY <2>2, <2>3, <3>1, MaxGreatest
    <2>7. CASE asked[q].mid = asked[s].mid
      <3>1. n + 1 \in later
        BY <2>1, <2>7
      <3>2. Max(later) = n + 1
        BY <2>1, <2>3, <2>6, <3>1
      <3> QED  BY <2>1, <2>4, <3>2
    <2>8. CASE asked[q].mid # asked[s].mid
      <3>1. later = ofCase
        BY <2>1, <2>8
      <3> QED  BY <2>1, <2>4, <2>5, <3>1
    <2> QED  BY <2>7, <2>8
  <1> QED  BY <1>1, <1>2 DEF Works

\* Who was overwritten stays so, as long as whoever failed late is done.
LEMMA OverwrittenStays ==
    ASSUME OutcomesInv, NEW q \in Requests, Works(q), NEW s \in Requests, Overwritten(s)
    PROVE  Overwritten(s)'
  <1>1. PICK t \in EarlierAttempts(s) : req[t].reply.label \in LateFailures
    BY DEF Overwritten
  <1>2. t \in Requests /\ t # s /\ Evaluated(t) /\ asked[t].mid = asked[s].mid /\ BegunBefore(t, s)
    BY <1>1 DEF EarlierAttempts
  <1>3. req'[t] = req[t]
    <2>1. req[t].reply # NoAnswer
      BY <1>1 DEF LateFailures, NoAnswer
    <2> QED  BY <1>2, <2>1 DEF OutcomesInv, OutcomeOf, Works
  <1>4. BegunBefore(t, s)'
    <2>1. PICK i, j \in DOMAIN created : i < j /\ created[i] = t /\ created[j] = s
      BY <1>2 DEF BegunBefore
    <2>2. CASE created' = created
      BY <1>2, <2>2 DEF BegunBefore
    <2>3. CASE created' = Append(created, q)
      <3>1. /\ created \in Seq(Requests) /\ i \in DOMAIN created' /\ j \in DOMAIN created'
            /\ created'[i] = t /\ created'[j] = s
        BY <2>1, <2>3 DEF OutcomesInv, ConversationInv, CreatedInv
      <3> QED  BY <2>1, <3>1 DEF BegunBefore
    <2> QED  BY <2>2, <2>3 DEF Works
  <1>5. t \in EarlierAttempts(s)'
    BY <1>2, <1>4 DEF EarlierAttempts, Requests, Evaluated, Works
  <1> QED  BY <1>1, <1>3, <1>5 DEF Overwritten

LEMMA OutcomeStays ==
    ASSUME OutcomesInv, NEW q \in Requests, Works(q), NEW s \in Requests, s # q,
           runs'[s] = runs[s]
    PROVE  OutcomeOf(s)'
  <1>1. /\ req'[s] = req[s] /\ asked' = asked /\ OutcomeOf(s)
        /\ IsAsk(s)' = IsAsk(s) /\ Evaluated(s)' = Evaluated(s) /\ ByTools(s)' = ByTools(s)
        /\ OwnsTransaction(s)' = OwnsTransaction(s) /\ Exists(s)' = Exists(s)
        /\ Reports(s)' = Reports(s)
    BY DEF Works, OutcomesInv, IsAsk, Evaluated, ByTools, OwnsTransaction, Exists, Reports
  <1>2. Overwritten(s) => Overwritten(s)'
    BY OverwrittenStays
  <1>3. Reports(s) /\ LatestRun(s) # s => LatestRun(s)' # s
    BY <1>1, LatestStays DEF OutcomesInv, OutcomeOf, Reports
  <1>4. Reports(s) => RecordedOutcome(s)'
    BY <1>1, <1>2, <1>3 DEF OutcomeOf, RecordedOutcome
  <1> QED  BY <1>1, <1>2, <1>4 DEF OutcomeOf

LEMMA WorkKeepsOutcomes ==
    ASSUME OutcomesInv, ConversationInv', NEW q \in Requests, Works(q), OutcomeOf(q)',
           \A s \in Requests \ {q} : runs'[s] = runs[s]
    PROVE  OutcomesInv'
  <1>1. asked' = asked /\ Requests' = Requests /\ AskedAlike'
    BY DEF Works, Requests, OutcomesInv, AskedAlike
  <1>2. \A s \in Requests \ {q} : OutcomeOf(s)'
    BY OutcomeStays
  <1>3. \A s \in Requests' : OutcomeOf(s)'
    BY <1>1, <1>2
  <1> QED  BY <1>1, <1>3 DEF OutcomesInv

\* A request that is not one of an evaluation and told nothing before its end.
LEMMA AskKeepsOutcomes ==
    ASSUME OutcomesInv, ConversationInv', NEW q \in Requests, ~Evaluated(q), Works(q),
           req'[q].stage = "done" \/ req'[q].reply = req[q].reply,
           req'[q].stage = "duplicate" => IsAsk(q),
           \A s \in Requests \ {q} : runs'[s] = runs[s]
    PROVE  OutcomesInv'
  <1>1. ~Evaluated(q)' /\ (req'[q].stage = "duplicate" => IsAsk(q)')
    BY DEF Evaluated, IsAsk, Works
  <1>2. req'[q].stage # "done" => req'[q].reply = NoAnswer
    BY DEF OutcomesInv, OutcomeOf, Works
  <1>3. OutcomeOf(q)'
    BY <1>1, <1>2 DEF OutcomeOf, Reports
  <1> QED  BY <1>3, WorkKeepsOutcomes

LEMMA GoingOnKeepsOutcomes ==
    ASSUME OutcomesInv, NEW r \in Requests, GoesOn(r) PROVE OutcomesInv'
  <1>1. ConversationInv'
    BY GoingOnKeeps DEF OutcomesInv
  <1>2. Works(r)
    BY DEF GoesOn, Works, Working, Records
  <1>3. /\ req[r].stage \in Working /\ req'[r].stage \in Working /\ req'[r].reply = req[r].reply
        /\ asked' = asked /\ runs' = runs /\ OutcomeOf(r)
    BY DEF GoesOn, Records, OutcomesInv
  <1>4. req'[r].reply = NoAnswer
    BY <1>3 DEF OutcomeOf, Working
  <1>5. OutcomeOf(r)'
    BY <1>3, <1>4 DEF OutcomeOf, Working, Evaluated, OwnsTransaction, ByTools, Reports
  <1> QED  BY <1>1, <1>2, <1>3, <1>5, WorkKeepsOutcomes

\* The end of an evaluated request that writes its run, or none.
LEMMA EndKeepsOutcomes ==
    ASSUME OutcomesInv, ConversationInv', NEW r \in Requests, Evaluated(r), req[r].stage # "done",
           NEW code, Refuse(r, code), UNCHANGED Records,
           \A s \in Requests \ {r} : runs'[s] = runs[s],
           Exists(r)',
           \/ code = "crashed"
           \/ RecordedOutcome(r)' /\ (code = "raised" => OwnsTransaction(r))
    PROVE  OutcomesInv'
  <1>1. Works(r)
    BY DEF Works, Records, Refuse, End
  <1>2. req'[r].stage = "done" /\ req'[r].reply.label = code
    BY DEF OutcomesInv, ConversationInv, Shape, Refuse, End, Resting
  <1>3. OwnsTransaction(r)' = OwnsTransaction(r)
    BY DEF OwnsTransaction, ByTools, Records
  <1>4. OutcomeOf(r)'
    BY <1>2, <1>3 DEF OutcomeOf, Reports, Working
  <1> QED  BY <1>1, <1>4, WorkKeepsOutcomes

\* A request of no evaluation that ends and leaves the other runs alone.
LEMMA AskEndKeepsOutcomes ==
    ASSUME OutcomesInv, ConversationInv', NEW r \in Requests, ~Evaluated(r), req[r].stage # "done",
           NEW reply, End(r, reply), UNCHANGED Records,
           \A s \in Requests \ {r} : runs'[s] = runs[s]
    PROVE  OutcomesInv'
  <1>1. Works(r)
    BY DEF Works, Records, End
  <1>2. req'[r].stage = "done"
    BY DEF OutcomesInv, ConversationInv, Shape, End, Resting
  <1> QED  BY <1>1, <1>2, AskKeepsOutcomes

\* Only a request of a conversation loses its run.
LEMMA EvaluatedRunStays ==
    ASSUME ConversationInv, NEW r \in Requests, Evaluated(r)
    PROVE  /\ ~IsAsk(r) /\ ~RunGone(r)
           /\ req[r].stage \in Working \cup {"load", "done"} /\ runs[r].status # "none" => Exists(r)
  BY DEF ConversationInv, RunsInv, RunOf, Shape, Statuses, Exists, RunGone, Evaluated, IsAsk

LEMMA RollbackKeepsOutcomes ==
    ASSUME OutcomesInv, NEW r \in Requests, req[r].stage \in Working, FailRolledBack(r),
           UNCHANGED Records
    PROVE  OutcomesInv'
  <1>1. ConversationInv'
    BY FailRolledBackKeeps DEF OutcomesInv
  <1>2. /\ Refuse(r, "error") /\ req[r].stage # "done"
        /\ runs' = [runs EXCEPT ![r].status = IF @ = "running" THEN "failed" ELSE @]
    BY DEF FailRolledBack, Working
  <1>3. \A s \in Requests \ {r} : runs'[s] = runs[s]
    BY <1>2 DEF OutcomesInv, ConversationInv, Shape
  <1>4. CASE ~Evaluated(r)
    BY <1>1, <1>2, <1>3, <1>4, AskEndKeepsOutcomes DEF Refuse
  <1>5. CASE Evaluated(r)
    <2>1. runs[r].status \in {"running", "failed"} /\ runs[r].answer = NoAnswer
      BY <1>5 DEF OutcomesInv, OutcomeOf
    <2>2. runs'[r].status = "failed" /\ runs'[r].answer = NoAnswer
      BY <1>2, <2>1 DEF OutcomesInv, ConversationInv, Shape
    <2>3. req'[r].reply.label = "error"
      BY <1>2 DEF OutcomesInv, ConversationInv, Shape, Refuse, End, Resting
    <2>4. RecordedOutcome(r)' /\ Exists(r)'
      BY <2>2, <2>3 DEF RecordedOutcome, LateFailures, Exists
    <2> QED  BY <1>1, <1>2, <1>3, <1>5, <2>4, EndKeepsOutcomes
  <1> QED  BY <1>4, <1>5

LEMMA RefusalsKeepOutcomes ==
    ASSUME OutcomesInv, NEW r \in Requests,
           Unavailable(r) \/ Crash(r) \/ Abandons(r)
    PROVE  OutcomesInv'
  <1>1. /\ UNCHANGED <<Records, runs>> /\ req[r].stage # "done"
        /\ \E code \in {"archived_session_readonly", "not_found", "error", "crashed"} :
              Refuse(r, code) /\ (code # "crashed" => IsAsk(r) \/ RunGone(r))
              /\ (code = "crashed" => req[r].stage # "idle")
    BY DEF Unavailable, Crash, Abandons, askVars, inputVars, Records, Working
  <1>2. ConversationInv'
    BY RefusalsKeep, GivingUpKeeps DEF OutcomesInv
  <1>3. CASE ~Evaluated(r)
    BY <1>1, <1>2, <1>3, AskEndKeepsOutcomes DEF Refuse
  <1>4. CASE Evaluated(r)
    <2>1. Refuse(r, "crashed") /\ req[r].stage \notin {"idle", "duplicate"}
      BY <1>1, <1>4, EvaluatedRunStays DEF OutcomesInv, OutcomeOf
    <2>2. Exists(r)
      <3>1. req[r].stage \in Working \cup {"load"}
        BY <1>1, <2>1 DEF OutcomesInv, ConversationInv, Shape
      <3>2. runs[r].status # "none"
        BY <3>1 DEF OutcomesInv, ConversationInv, RunsInv, RunOf
      <3> QED  BY <1>4, <3>1, <3>2, EvaluatedRunStays DEF OutcomesInv
    <2>3. Exists(r)'
      BY <1>1, <2>2 DEF Exists
    <2> QED  BY <1>1, <1>2, <1>4, <2>1, <2>3, EndKeepsOutcomes
  <1> QED  BY <1>3, <1>4

LEMMA RaiseKeepsOutcomes ==
    ASSUME OutcomesInv, NEW r \in Requests, RaiseUnmarked(r) PROVE OutcomesInv'
  <1>1. /\ UNCHANGED <<Records, runs>> /\ req[r].stage \in Working /\ req[r].stage # "done"
        /\ Refuse(r, "raised") /\ OwnsTransaction(r) /\ Evaluated(r)
    BY DEF RaiseUnmarked, askVars, inputVars, Records, Working, OwnsTransaction, Evaluated
  <1>2. runs[r].status = "running" /\ runs[r].answer = NoAnswer
    BY <1>1 DEF OutcomesInv, OutcomeOf
  <1>3. req'[r].reply.label = "raised"
    BY <1>1 DEF OutcomesInv, ConversationInv, Shape, Refuse, End, Resting
  <1>4. RecordedOutcome(r)' /\ Exists(r)'
    BY <1>1, <1>2, <1>3 DEF RecordedOutcome, LateFailures, Exists
  <1>5. ConversationInv'
    BY RefusalsKeep DEF OutcomesInv
  <1> QED  BY <1>1, <1>4, <1>5, EndKeepsOutcomes

LEMMA DuplicatesKeepOutcomes ==
    ASSUME OutcomesInv, NEW r \in Requests, Duplicate(r) \/ ResolveDuplicate(r)
    PROVE  OutcomesInv'
  <1>1. /\ UNCHANGED <<Records, runs>> /\ req[r].stage \in {"idle", "duplicate"} /\ ConversationInv'
        /\ Duplicate(r) => IsAsk(r)
    BY DuplicatesKeep DEF OutcomesInv, Duplicate, ResolveDuplicate, askVars, inputVars, Records
  <1>2. IsAsk(r) /\ ~Evaluated(r)
    BY <1>1 DEF ResolveDuplicate, OutcomesInv, OutcomeOf, IsAsk, Evaluated
  <1>3. CASE req' = [req EXCEPT ![r].stage = "duplicate"]
    <2>1. Works(r) /\ req'[r].reply = req[r].reply
      BY <1>1, <1>3 DEF OutcomesInv, ConversationInv, Shape, Works, Records
    <2> QED  BY <1>1, <1>2, <2>1, AskKeepsOutcomes
  <1>4. ASSUME NEW reply, End(r, reply) PROVE OutcomesInv'
    BY <1>1, <1>2, <1>4, AskEndKeepsOutcomes
  <1> QED  BY <1>3, <1>4 DEF Duplicate, ResolveDuplicate

LEMMA BeginKeepsOutcomes ==
    ASSUME OutcomesInv, NEW r \in Requests,
           \/ BeginSearch(r) \/ BeginAsk(r) \/ BeginGraphSearch(r) \/ BeginGraphAsk(r)
           \/ BeginOrchestrated(r)
    PROVE  OutcomesInv'
  <1>1. req[r].stage = "idle" /\ CreateRun(r) /\ ConversationInv'
    BY BeginKeeps DEF BeginSearch, BeginAsk, BeginGraphSearch, BeginGraphAsk, BeginOrchestrated, OutcomesInv
  <1>2. runs[r].status = "none" /\ Blank(runs[r]) /\ req[r].reply = NoAnswer
    BY <1>1 DEF OutcomesInv, OutcomeOf, ConversationInv, RunsInv, RunOf
  <1>3. /\ asked' = asked /\ \A s \in Requests \ {r} : runs'[s] = runs[s] /\ req'[s] = req[s]
        /\ runs'[r].status = "running" /\ runs'[r].answer = NoAnswer
        /\ req'[r].stage \in Working /\ req'[r].reply = NoAnswer
        /\ created' = IF Evaluated(r) THEN Append(created, r) ELSE created
    <2>1. \A s \in Requests \ {r} : req'[s] = req[s]
      BY <1>1 DEF OutcomesInv, ConversationInv, Shape, CreateRun
    <2>2. req'[r].stage \in Working /\ req'[r].reply = NoAnswer
      BY <1>1, <1>2 DEF OutcomesInv, ConversationInv, Shape, CreateRun, Working
    <2>3. /\ runs' = [runs EXCEPT ![r] = [@ EXCEPT !.status = "running", !.strategy = asked[r].strategy]]
          /\ asked' = asked /\ created' = IF Evaluated(r) THEN Append(created, r) ELSE created
      BY <1>1 DEF CreateRun
    <2>4. \A s \in Requests \ {r} : runs'[s] = runs[s]
      BY <2>3 DEF OutcomesInv, ConversationInv, Shape
    <2>5. runs'[r].status = "running" /\ runs'[r].answer = NoAnswer
      <3>1. runs[r] = [status |-> runs[r].status, strategy |-> runs[r].strategy,
                       items |-> runs[r].items, paths |-> runs[r].paths, answer |-> runs[r].answer]
        BY DEF OutcomesInv, ConversationInv, Shape
      <3>2. runs'[r] = [runs[r] EXCEPT !.status = "running", !.strategy = asked[r].strategy]
        BY <2>3 DEF OutcomesInv, ConversationInv, Shape
      <3> QED  BY <1>2, <3>1, <3>2 DEF Blank
    <2> QED  BY <2>1, <2>2, <2>3, <2>4, <2>5
  <1>4. Works(r)
    BY <1>1, <1>2, <1>3 DEF Works, Exists
  <1>5. OutcomeOf(r)'
    BY <1>3 DEF OutcomeOf, Working, Reports
  <1> QED  BY <1>1, <1>3, <1>4, <1>5, WorkKeepsOutcomes

\* A search, an answer or a refusal outside evaluations.
LEMMA AnswersKeepOutcomes ==
    ASSUME OutcomesInv, NEW r \in Requests, EndSearch(r) \/ NoContext(r) \/ WriteAnswer(r)
    PROVE  OutcomesInv'
  <1>1. ConversationInv'
    BY EndSearchKeeps, AnswersKeep DEF OutcomesInv
  <1>2. req[r].stage # "done" /\ ~Evaluated(r) /\ UNCHANGED Records
    BY DEF EndSearch, NoContext, WriteAnswer, inputVars, Records, Evaluated, IsAsk
  <1>3. /\ \A s \in Requests \ {r} : runs'[s] = runs[s]
        /\ \E reply : End(r, reply)
    <2>1. CASE EndSearch(r)
      BY <2>1 DEF EndSearch, Refuse, OutcomesInv, ConversationInv, Shape
    <2>2. CASE NoContext(r)
      BY <2>2 DEF NoContext, FailCommitted, Refuse, OutcomesInv, ConversationInv, Shape
    <2>3. CASE WriteAnswer(r)
      <3>1. \E run, reply : runs' = [runs EXCEPT ![r] = run] /\ End(r, reply)
        BY <2>3 DEF WriteAnswer, FailCommitted, Refuse
      <3> QED  BY <3>1 DEF OutcomesInv, ConversationInv, Shape
    <2> QED  BY <2>1, <2>2, <2>3
  <1> QED  BY <1>1, <1>2, <1>3, AskEndKeepsOutcomes

\* A step that touches no request and no run of an evaluation.
LEMMA OthersKeepOutcomes ==
    ASSUME OutcomesInv, ConversationInv', UNCHANGED <<asked, created, req>>,
           \A s \in Requests : Evaluated(s) => runs'[s] = runs[s]
    PROVE  OutcomesInv'
  <1>1. asked' = asked /\ created' = created /\ req' = req /\ Requests' = Requests /\ AskedAlike'
    BY DEF Requests, OutcomesInv, AskedAlike
  <1>2. \A s \in Requests : OutcomeOf(s)'
    <2> SUFFICES ASSUME NEW s \in Requests PROVE OutcomeOf(s)'
      OBVIOUS
    <2>1. /\ OutcomeOf(s) /\ IsAsk(s)' = IsAsk(s) /\ Evaluated(s)' = Evaluated(s)
          /\ ByTools(s)' = ByTools(s) /\ OwnsTransaction(s)' = OwnsTransaction(s)
          /\ Reports(s)' = Reports(s) /\ LatestRun(s)' = LatestRun(s)
      BY <1>1 DEF OutcomesInv, IsAsk, Evaluated, ByTools, OwnsTransaction, Reports, LatestRun
    <2>2. Overwritten(s)' = Overwritten(s)
      BY <1>1 DEF Overwritten, EarlierAttempts, BegunBefore, Evaluated
    <2>3. CASE Evaluated(s)
      BY <1>1, <2>1, <2>2, <2>3 DEF OutcomeOf, Exists, RecordedOutcome
    <2>4. CASE ~Evaluated(s)
      BY <1>1, <2>1, <2>4 DEF OutcomeOf, Reports
    <2> QED  BY <2>3, <2>4
  <1> QED  BY <1>1, <1>2 DEF OutcomesInv

LEMMA VictimKeepsOutcomes ==
    ASSUME OutcomesInv, NEW p \in Requests \cup {Deletion}, DeadlockVictim(p)
    PROVE  OutcomesInv'
  <1>1. UNCHANGED Records /\ ConversationInv'
    BY VictimKeeps DEF OutcomesInv, DeadlockVictim, inputVars, Records
  <1>2. CASE p = Deletion
    BY <1>1, <1>2, OthersKeepOutcomes DEF DeadlockVictim, Records
  <1>3. CASE p \in Requests /\ p # Deletion
    <2>1. CASE /\ req[p].stage = "store" /\ req' = [req EXCEPT ![p].stage = "answer"]
               /\ runs' = runs
      <3>1. GoesOn(p)
        BY <1>1, <1>3, <2>1 DEF GoesOn, OutcomesInv, ConversationInv, Shape, Working
      <3> QED  BY <1>3, <3>1, GoingOnKeepsOutcomes
    <2>2. CASE req[p].stage = "answer" /\ FailRolledBack(p)
      BY <1>1, <1>3, <2>2, RollbackKeepsOutcomes DEF Working
    <2>3. CASE req[p].stage = "duplicate" /\ Refuse(p, "error") /\ runs' = runs
      <3>1. ~Evaluated(p)
        BY <1>3, <2>3 DEF OutcomesInv, OutcomeOf, IsAsk, Evaluated
      <3> QED  BY <1>1, <1>3, <2>3, <3>1, AskEndKeepsOutcomes DEF Refuse
    <2> QED  BY <1>3, <2>1, <2>2, <2>3 DEF DeadlockVictim
  <1> QED  BY <1>2, <1>3

LEMMA FinishSearchKeepsOutcomes ==
    ASSUME OutcomesInv, NEW r \in Requests, FinishEvaluatedSearch(r) PROVE OutcomesInv'
  <1>1. /\ runs' = [runs EXCEPT ![r] = Found(r)] /\ UNCHANGED Records /\ ConversationInv'
        /\ req[r].stage = "answer" /\ Evaluated(r) /\ ~OwnsTransaction(r)
    BY FinishEvaluatedSearchKeeps DEF FinishEvaluatedSearch, inputVars, Records, OutcomesInv
  <1>2. Found(r) = [status |-> "succeeded", strategy |-> Recorded(r), items |-> req[r].items,
                    paths |-> req[r].paths, answer |-> runs[r].answer]
    BY FoundRun DEF OutcomesInv
  <1>3. runs[r].answer = NoAnswer
    BY <1>1 DEF OutcomesInv, OutcomeOf, Working
  <1>4. /\ \A s \in Requests \ {r} : runs'[s] = runs[s]
        /\ runs'[r].status = "succeeded" /\ runs'[r].answer = NoAnswer
    BY <1>1, <1>2, <1>3 DEF OutcomesInv, ConversationInv, Shape
  <1>5. CASE Refuse(r, "measured")
    <2>1. req'[r].reply.label = "measured"
      BY <1>5 DEF OutcomesInv, ConversationInv, Shape, Refuse, End, Resting
    <2>2. RecordedOutcome(r)' /\ Exists(r)'
      BY <1>4, <2>1 DEF RecordedOutcome, LateFailures, Exists
    <2> QED  BY <1>1, <1>4, <1>5, <2>2, EndKeepsOutcomes
  <1>6. CASE /\ asked[r].kind # "measure"
             /\ req' = [req EXCEPT ![r] = [Resting("load", NoAnswer) EXCEPT
                        !.items = req[r].items, !.seen = req[r].seen, !.lost = req[r].lost]]
    <2>1. /\ \A s \in Requests \ {r} : req'[s] = req[s]
          /\ req'[r].stage = "load" /\ req'[r].reply = NoAnswer
      BY <1>6 DEF OutcomesInv, ConversationInv, Shape, Resting
    <2>2. Works(r)
      BY <1>1, <2>1 DEF Works, Records
    <2>3. asked[r].kind = "evaluate" /\ ~ByTools(r)
      BY <1>1, <1>6 DEF OwnsTransaction, Evaluated
    <2>4. asked' = asked /\ ~ByTools(r)'
      BY <1>1, <2>3 DEF Records, ByTools
    <2>5. OutcomeOf(r)'
      BY <1>4, <2>1, <2>3, <2>4 DEF OutcomeOf, Working, Reports
    <2> QED  BY <1>1, <1>4, <2>2, <2>5, WorkKeepsOutcomes
  <1> QED  BY <1>5, <1>6 DEF FinishEvaluatedSearch

LEMMA NothingFoundKeepsOutcomes ==
    ASSUME OutcomesInv, NEW r \in Requests, EvaluatedNothing(r) \/ GraphFoundNothing(r)
    PROVE  OutcomesInv'
  <1>1. /\ UNCHANGED Records /\ ConversationInv' /\ req[r].stage = "load" /\ req[r].stage # "done"
        /\ MarkNothingFound(r) \/ (Refuse(r, "skipped") /\ runs' = runs)
    BY NothingFoundKeeps DEF EvaluatedNothing, GraphFoundNothing, FoundNothing, inputVars, Records,
                             OutcomesInv
  <1>2. Evaluated(r) /\ Exists(r) /\ runs[r].answer = NoAnswer
    BY <1>1, Loaded DEF OutcomesInv, OutcomeOf, Exists
  <1>3. CASE MarkNothingFound(r)
    <2>1. Refuse(r, "no_context") /\ runs' = [runs EXCEPT ![r].status = "failed"]
      BY <1>3 DEF MarkNothingFound, Outcome
    <2>2. /\ \A s \in Requests \ {r} : runs'[s] = runs[s]
          /\ runs'[r].status = "failed" /\ runs'[r].answer = NoAnswer
          /\ req'[r].reply.label = "no_context"
      BY <1>2, <2>1 DEF OutcomesInv, ConversationInv, Shape, Refuse, End, Resting
    <2>3. RecordedOutcome(r)' /\ Exists(r)'
      BY <2>2 DEF RecordedOutcome, LateFailures, Exists
    <2> QED  BY <1>1, <1>2, <2>1, <2>2, <2>3, EndKeepsOutcomes
  <1>4. CASE Refuse(r, "skipped") /\ runs' = runs
    <2>1. Works(r)
      BY <1>1, <1>4 DEF Works, Records, Refuse, End
    <2>2. runs[r].status = "succeeded" \/ Overwritten(r)'
      BY <1>1, <1>2, <2>1, OverwrittenStays DEF OutcomesInv, OutcomeOf
    <2>3. req'[r].reply.label = "skipped"
      BY <1>4 DEF OutcomesInv, ConversationInv, Shape, Refuse, End, Resting
    <2>4. RecordedOutcome(r)' /\ Exists(r)'
      BY <1>2, <1>4, <2>2, <2>3 DEF RecordedOutcome, LateFailures, Exists
    <2> QED  BY <1>1, <1>2, <1>4, <2>4, EndKeepsOutcomes
  <1> QED  BY <1>1, <1>3, <1>4

\* An end that tells whether the run has an answer.
LEMMA AnsweredKeepsOutcomes ==
    ASSUME OutcomesInv, ConversationInv', NEW r \in Requests, Evaluated(r),
           req[r].stage \in {"answer", "load"}, UNCHANGED Records,
           NEW code \in {"answered", "abstained", "no_context", "citation_error", "generation_error"},
           Refuse(r, code), \A s \in Requests \ {r} : runs'[s] = runs[s],
           runs'[r].status = IF code \in {"answered", "abstained"} THEN "succeeded" ELSE "failed",
           code = "answered" <=> runs'[r].answer # NoAnswer
    PROVE  OutcomesInv'
  <1>1. req'[r].reply.label = code
    BY DEF OutcomesInv, ConversationInv, Shape, Refuse, End, Resting
  <1>2. RecordedOutcome(r)' /\ Exists(r)'
    BY <1>1 DEF RecordedOutcome, LateFailures, Exists
  <1> QED  BY <1>2, EndKeepsOutcomes

LEMMA OutcomesTold ==
    /\ Outcome["no_context_found"] = "no_context"
    /\ Outcome["citation_build_failed"] = "citation_error"
    /\ Outcome["generation_failed"] = "generation_error"
  BY DEF Outcome

LEMMA ToolsFoundNothingKeepsOutcomes ==
    ASSUME OutcomesInv, NEW r \in Requests, ToolsFoundNothing(r) PROVE OutcomesInv'
  <1>1. /\ req[r].stage = "answer" /\ OwnsTransaction(r) /\ Evaluated(r) /\ UNCHANGED Records
        /\ runs' = [runs EXCEPT ![r] = [@ EXCEPT !.status = "failed", !.items = Budgeted(r)]]
        /\ Refuse(r, "no_context") /\ ConversationInv'
    BY OutcomesTold, ToolsFoundNothingKeeps
       DEF ToolsFoundNothing, inputVars, Records, OwnsTransaction, Evaluated, OutcomesInv
  <1>2. runs[r].answer = NoAnswer
    BY <1>1 DEF OutcomesInv, OutcomeOf, Working
  <1>3. /\ \A s \in Requests \ {r} : runs'[s] = runs[s]
        /\ runs'[r].status = "failed" /\ runs'[r].answer = NoAnswer
    <2>1. runs[r] = [status |-> runs[r].status, strategy |-> runs[r].strategy,
                     items |-> runs[r].items, paths |-> runs[r].paths, answer |-> runs[r].answer]
      BY DEF OutcomesInv, ConversationInv, Shape
    <2>2. runs'[r] = [runs[r] EXCEPT !.status = "failed", !.items = Budgeted(r)]
      BY <1>1 DEF OutcomesInv, ConversationInv, Shape
    <2>3. \A s \in Requests \ {r} : runs'[s] = runs[s]
      BY <1>1 DEF OutcomesInv, ConversationInv, Shape
    <2> QED  BY <1>2, <2>1, <2>2, <2>3
  <1> QED  BY <1>1, <1>3, AnsweredKeepsOutcomes

LEMMA AnswerToolsKeepsOutcomes ==
    ASSUME OutcomesInv, NEW r \in Requests, AnswerTools(r) PROVE OutcomesInv'
  <1>1. /\ req[r].stage = "answer" /\ OwnsTransaction(r) /\ Evaluated(r) /\ UNCHANGED Records
        /\ ConversationInv'
    BY AnswerToolsKeeps DEF AnswerTools, inputVars, Records, OwnsTransaction, Evaluated, OutcomesInv
  <1>2. PICK context \in Contexts(r) :
          \E result \in EvaluatedResults(context.pack, req[r].seen) :
             LET outcome == result.outcome
                 failed == outcome \notin {"answered", "abstained"}
             IN /\ runs' = [runs EXCEPT ![r] = [runs[r] EXCEPT
                      !.status = IF failed THEN "failed" ELSE "succeeded", !.items = context.items,
                      !.answer = IF outcome = "answered" THEN result.answer ELSE @]]
                /\ Refuse(r, IF failed THEN Outcome[outcome] ELSE outcome)
    BY DEF AnswerTools
  <1>3. PICK result \in EvaluatedResults(context.pack, req[r].seen) :
             LET outcome == result.outcome
                 failed == outcome \notin {"answered", "abstained"}
             IN /\ runs' = [runs EXCEPT ![r] = [runs[r] EXCEPT
                      !.status = IF failed THEN "failed" ELSE "succeeded", !.items = context.items,
                      !.answer = IF outcome = "answered" THEN result.answer ELSE @]]
                /\ Refuse(r, IF failed THEN Outcome[outcome] ELSE outcome)
    BY <1>2
  <1> DEFINE outcome == result.outcome
             failed == outcome \notin {"answered", "abstained"}
             status == IF failed THEN "failed" ELSE "succeeded"
             answer == IF outcome = "answered" THEN result.answer ELSE runs[r].answer
             code == IF failed THEN Outcome[outcome] ELSE outcome
  <1>4. /\ outcome \in {"generation_failed", "abstained", "answered", "citation_build_failed"}
        /\ result.answer # NoAnswer
    BY StrictOutcomes DEF EvaluatedResults, EvaluatedAnswer, NoAnswer
  <1>5. /\ code \in {"answered", "abstained", "citation_error", "generation_error"} /\ Refuse(r, code)
        /\ status = IF code \in {"answered", "abstained"} THEN "succeeded" ELSE "failed"
        /\ code = "answered" <=> outcome = "answered"
    BY <1>3, <1>4, OutcomesTold
  <1>6. runs[r].answer = NoAnswer
    BY <1>1 DEF OutcomesInv, OutcomeOf, Working
  <1>7. answer # NoAnswer <=> outcome = "answered"
    BY <1>4, <1>6
  <1>8. runs' = [runs EXCEPT ![r] = [runs[r] EXCEPT !.status = status, !.items = context.items,
                                                   !.answer = answer]]
    BY <1>3
  <1> HIDE DEF code, status, answer, outcome
  <1>9. /\ \A s \in Requests \ {r} : runs'[s] = runs[s]
        /\ runs'[r].status = status /\ runs'[r].answer = answer
    <2>1. runs[r] = [status |-> runs[r].status, strategy |-> runs[r].strategy,
                     items |-> runs[r].items, paths |-> runs[r].paths, answer |-> runs[r].answer]
      BY DEF OutcomesInv, ConversationInv, Shape
    <2>2. runs'[r] = [runs[r] EXCEPT !.status = status, !.items = context.items, !.answer = answer]
      BY <1>8 DEF OutcomesInv, ConversationInv, Shape
    <2>3. \A s \in Requests \ {r} : runs'[s] = runs[s]
      BY <1>8 DEF OutcomesInv, ConversationInv, Shape
    <2> QED  BY <2>1, <2>2, <2>3
  <1> QED  BY <1>1, <1>5, <1>7, <1>9, AnsweredKeepsOutcomes

LEMMA MarkAnsweredKeepsOutcomes ==
    ASSUME OutcomesInv, ConversationInv', NEW r \in Requests, req[r].stage = "load", UNCHANGED Records,
           NEW result, result.outcome \in {"answered", "abstained"}, result.answer # NoAnswer,
           MarkAnswered(r, result)
    PROVE  OutcomesInv'
  <1> DEFINE answer == IF result.outcome = "answered" THEN result.answer ELSE runs[r].answer
  <1>1. /\ runs' = [runs EXCEPT ![r].status = "succeeded",
                      ![r].answer = IF result.outcome = "answered" THEN result.answer ELSE @]
        /\ Refuse(r, result.outcome)
    BY DEF MarkAnswered
  <1>2. /\ Evaluated(r) /\ runs[r].answer = NoAnswer
        /\ runs[r] = [status |-> runs[r].status, strategy |-> runs[r].strategy,
                      items |-> runs[r].items, paths |-> runs[r].paths, answer |-> runs[r].answer]
    BY Loaded DEF OutcomesInv, OutcomeOf
  <1>3. runs' = [runs EXCEPT ![r].status = "succeeded", ![r].answer = answer]
    BY <1>1
  <1>4. answer # NoAnswer <=> result.outcome = "answered"
    BY <1>2
  <1> HIDE DEF answer
  <1>5. \A s \in Requests \ {r} : runs'[s] = runs[s]
    BY <1>3 DEF OutcomesInv, ConversationInv, Shape
  <1>6. runs'[r].status = "succeeded" /\ runs'[r].answer = answer
    BY <1>2, <1>3 DEF OutcomesInv, ConversationInv, Shape
  <1> QED  BY <1>1, <1>2, <1>4, <1>5, <1>6, AnsweredKeepsOutcomes

\* The latest attempt of a case, marked by an earlier one, is of the same kind.
LEMMA LatestAttempt ==
    ASSUME OutcomesInv, NEW r \in Requests, req[r].stage = "load", LatestRun(r) # r
    PROVE  /\ LatestRun(r) \in Requests
           /\ Evaluated(LatestRun(r)) /\ Exists(LatestRun(r)) /\ ~OwnsTransaction(LatestRun(r))
           /\ r \in EarlierAttempts(LatestRun(r))
  <1> DEFINE ofCase == {k \in DOMAIN created : asked[created[k]].mid = asked[r].mid}
             l == LatestRun(r)
  <1>1. Evaluated(r) /\ Exists(r) /\ ~ByTools(r)
    BY Loaded DEF OutcomesInv, OutcomeOf, Exists
  <1>2. l \in Requests /\ Evaluated(l) /\ Exists(l)
    BY <1>1, LatestRunExists DEF OutcomesInv
  <1>3. Len(created) \in Nat /\ DOMAIN created = 1..Len(created)
    BY DEF OutcomesInv, ConversationInv, CreatedInv
  <1>4. PICK j \in DOMAIN created : created[j] = r
    BY <1>1 DEF OutcomesInv, ConversationInv, CreatedInv
  <1>5. /\ j \in ofCase /\ ofCase \subseteq 1..Len(created)
        /\ l = created[Max(ofCase)]
    BY <1>3, <1>4 DEF LatestRun
  <1>6. Max(ofCase) \in ofCase /\ j <= Max(ofCase)
    <2> HIDE DEF ofCase, l
    <2> QED  BY <1>3, <1>5, MaxGreatest
  <1>7. j < Max(ofCase) /\ Max(ofCase) \in DOMAIN created
    BY <1>3, <1>4, <1>5, <1>6
  <1>8. asked[l].mid = asked[r].mid /\ BegunBefore(r, l)
    BY <1>4, <1>5, <1>6, <1>7 DEF BegunBefore
  <1>9. asked[l].strategy = asked[r].strategy
    <2>1. PICK s \in Scenarios : asked = s.asks
      BY DEF OutcomesInv, AskedAlike
    <2>2. r \in DOMAIN s.asks /\ l \in DOMAIN s.asks
      BY <1>2, <2>1 DEF Requests
    <2>3. {s.asks[l].kind, s.asks[r].kind} \subseteq {"evaluate", "measure"}
      BY <1>1, <1>2, <2>1 DEF Evaluated
    <2> QED  BY <1>8, <2>1, <2>2, <2>3, AttemptsAssumption
  <1>10. ~OwnsTransaction(l)
    BY <1>1, <1>9 DEF OwnsTransaction, ByTools
  <1>11. r \in EarlierAttempts(l)
    BY <1>1, <1>8 DEF EarlierAttempts
  <1> QED  BY <1>2, <1>10, <1>11

\* Marking the run of a later attempt overwrites it.
LEMMA MarkLatestKeepsOutcomes ==
    ASSUME OutcomesInv, ConversationInv', NEW r \in Requests, req[r].stage = "load",
           NEW outcome \in {"citation_build_failed", "generation_failed"},
           MarkLatestFailed(r, outcome), UNCHANGED Records
    PROVE  OutcomesInv'
  <1>1. PICK code \in LateFailures : code = Outcome[outcome]
    BY OutcomesTold DEF LateFailures
  <1>2. /\ Evaluated(r) /\ Exists(r) /\ ~ByTools(r) /\ runs[r].answer = NoAnswer
    BY Loaded DEF OutcomesInv, OutcomeOf, Exists
  <1>3. PICK l \in Requests : l = LatestRun(r) /\ Evaluated(l) /\ Exists(l)
    BY <1>2, LatestRunExists DEF OutcomesInv
  <1>4. runs' = [runs EXCEPT ![l].status = "failed"] /\ Refuse(r, code)
    BY <1>1, <1>3 DEF MarkLatestFailed
  <1>5. /\ \A s \in Requests \ {l} : runs'[s] = runs[s]
        /\ runs'[l].status = "failed" /\ runs'[l].answer = runs[l].answer
    BY <1>4 DEF OutcomesInv, ConversationInv, Shape
  <1>6. /\ \A s \in Requests \ {r} : req'[s] = req[s]
        /\ req'[r].stage = "done" /\ req'[r].reply.label = code
    BY <1>4 DEF OutcomesInv, ConversationInv, Shape, Refuse, End, Resting
  <1>7. Works(r) /\ asked' = asked /\ Requests' = Requests /\ AskedAlike' /\ created' = created
    BY <1>6 DEF Works, Records, Requests, OutcomesInv, AskedAlike
  <1>8. CASE l = r
    <2>1. code \in {"citation_error", "generation_error"} /\ runs'[r].answer = NoAnswer
      BY <1>2, <1>5, <1>8 DEF LateFailures
    <2> QED  BY <1>2, <1>4, <1>5, <1>8, <2>1, AnsweredKeepsOutcomes
  <1>9. CASE l # r
    <2>1. ~OwnsTransaction(l) /\ r \in EarlierAttempts(l)
      BY <1>3, <1>9, LatestAttempt
    <2>2. LatestRun(r)' = l
      BY <1>3, <1>7 DEF LatestRun
    <2>3. OutcomeOf(r)'
      <3>1. /\ runs'[r] = runs[r] /\ ~OwnsTransaction(r)' /\ Exists(r)'
            /\ code \in LateFailures
        BY <1>2, <1>5, <1>7, <1>9 DEF OwnsTransaction, ByTools, Exists
      <3>2. RecordedOutcome(r)'
        BY <1>2, <1>6, <1>9, <2>2, <3>1 DEF RecordedOutcome, LateFailures
      <3>3. code # "raised"
        BY DEF LateFailures
      <3> QED  BY <1>6, <3>1, <3>2, <3>3 DEF OutcomeOf, Working
    <2>4. Overwritten(l)'
      <3>1. r \in EarlierAttempts(l)'
        BY <1>7, <2>1 DEF EarlierAttempts, BegunBefore, Evaluated
      <3>2. req'[r].reply.label \in LateFailures
        BY <1>6
      <3> QED  BY <3>1, <3>2 DEF Overwritten
    <2>5. OutcomeOf(l)'
      <3>1. /\ OutcomeOf(l) /\ req'[l] = req[l] /\ ~OwnsTransaction(l)'
            /\ Evaluated(l)' = Evaluated(l) /\ Exists(l)' /\ ByTools(l)' = ByTools(l)
            /\ Reports(l)' = Reports(l) /\ IsAsk(l)' = IsAsk(l)
        BY <1>3, <1>5, <1>6, <1>7, <1>9, <2>1
           DEF OutcomesInv, OwnsTransaction, ByTools, Evaluated, Exists, Reports, IsAsk
      <3>2. Reports(l) => RecordedOutcome(l)' /\ req[l].reply.label # "raised"
        BY <1>5, <2>1, <2>4, <3>1 DEF OutcomeOf, RecordedOutcome
      <3> QED  BY <1>5, <1>7, <2>4, <3>1, <3>2 DEF OutcomeOf
    <2>6. \A s \in Requests \ {r, l} : OutcomeOf(s)'
      BY <1>5, <1>7, OutcomeStays
    <2>7. \A s \in Requests' : OutcomeOf(s)'
      BY <1>7, <2>3, <2>5, <2>6
    <2> QED  BY <1>7, <2>7 DEF OutcomesInv
  <1> QED  BY <1>8, <1>9

LEMMA AnswerLoadedKeepsOutcomes ==
    ASSUME OutcomesInv, NEW r \in Requests, AnswerLoaded(r) PROVE OutcomesInv'
  <1>1. req[r].stage = "load" /\ UNCHANGED Records /\ ConversationInv'
    BY AnswerLoadedKeeps DEF AnswerLoaded, inputVars, Records, OutcomesInv
  <1>2. PICK result \in EvaluatedResults(LoadedContext(req[r].items), req[r].seen) :
             IF result.outcome \in {"answered", "abstained"} THEN MarkAnswered(r, result)
             ELSE MarkLatestFailed(r, result.outcome)
    BY DEF AnswerLoaded
  <1>3. /\ result.outcome \in {"generation_failed", "abstained", "answered", "citation_build_failed"}
        /\ result.answer # NoAnswer
    BY StrictOutcomes DEF EvaluatedResults, EvaluatedAnswer, NoAnswer
  <1>4. CASE result.outcome \in {"answered", "abstained"}
    BY <1>1, <1>2, <1>3, <1>4, MarkAnsweredKeepsOutcomes
  <1>5. CASE result.outcome \notin {"answered", "abstained"}
    BY <1>1, <1>2, <1>3, <1>5, MarkLatestKeepsOutcomes
  <1> QED  BY <1>4, <1>5

-----------------------------------------------------------------------------
(* Every step keeps what evaluations report.                               *)

LEMMA StepKeepsOutcomes ==
    ASSUME OutcomesInv, NEW r \in Requests, Step(r) PROVE OutcomesInv'
  <1> USE DEF OutcomesInv
  <1>1. CASE Unavailable(r) \/ Crash(r)
    BY <1>1, RefusalsKeepOutcomes
  <1>2. CASE Duplicate(r) \/ ResolveDuplicate(r)
    BY <1>2, DuplicatesKeepOutcomes
  <1>3. CASE BeginSearch(r) \/ BeginAsk(r) \/ BeginGraphSearch(r) \/ BeginGraphAsk(r)
    BY <1>3, BeginKeepsOutcomes
  <1>4. CASE \/ Lookup(r) \/ LookupFails(r) \/ Hydrate(r) \/ Search(r)
             \/ PlanCalls(r) \/ CallSearch(r) \/ CallOther(r) \/ TimesOut(r) \/ CheckTool(r)
             \/ Store(r) \/ StoreFails(r)
    BY <1>4, RetrievalGoesOn, GoingOnKeepsOutcomes
  <1>5. CASE \/ SearchDatabaseGraph(r) \/ SearchNeo4j(r) \/ Neo4jFails(r) \/ CheckProjection(r)
             \/ CheckGraph(r) \/ FallBack(r)
    BY <1>5, GraphGoesOn, GoingOnKeepsOutcomes
  <1>6. CASE RetrievalFails(r) \/ AskWithoutRun(r)
    <2>1. req[r].stage \in Working /\ FailRolledBack(r) /\ UNCHANGED Records
      BY <1>6 DEF RetrievalFails, AskWithoutRun, inputVars, Records, Working
    <2> QED  BY <2>1, RollbackKeepsOutcomes
  <1>7. CASE \/ CheckDirect(r) \/ CheckAgentic(r) \/ GraphWithoutRun(r)
             \/ FinishLlmTools(r) \/ FinishLangChain(r) \/ FinishLangGraph(r)
    BY <1>7, CheckGoesOn, GoingOnKeepsOutcomes, RefusalsKeepOutcomes
  <1>8. CASE \/ FinishSearch(r) \/ FinishGraphSearch(r)
             \/ NoContextFound(r) \/ NoGraphContextFound(r) \/ Answer(r) \/ GraphAnswer(r)
    BY <1>8, AnswersKeepOutcomes DEF FinishSearch, FinishGraphSearch, NoContextFound,
                                     NoGraphContextFound, Answer, GraphAnswer
  <1> QED  BY <1>1, <1>2, <1>3, <1>4, <1>5, <1>6, <1>7, <1>8 DEF Step

LEMMA EvaluationStepKeepsOutcomes ==
    ASSUME OutcomesInv, NEW r \in Requests, EvaluationStep(r) PROVE OutcomesInv'
  <1>1. CASE FinishEvaluatedSearch(r)
    BY <1>1, FinishSearchKeepsOutcomes
  <1>2. CASE EvaluatedNothing(r) \/ GraphFoundNothing(r)
    BY <1>2, NothingFoundKeepsOutcomes
  <1>3. CASE AnswerEvaluated(r) \/ AnswerOverGraph(r)
    BY <1>3, AnswerLoadedKeepsOutcomes DEF AnswerEvaluated, AnswerOverGraph
  <1>4. CASE BeginLlmTools(r) \/ BeginLangChain(r) \/ BeginLangGraph(r)
    BY <1>4, BeginKeepsOutcomes DEF BeginLlmTools, BeginLangChain, BeginLangGraph
  <1>5. CASE LlmToolsFoundNothing(r) \/ LangChainFoundNothing(r) \/ LangGraphFoundNothing(r)
    BY <1>5, ToolsFoundNothingKeepsOutcomes DEF LlmToolsFoundNothing, LangChainFoundNothing,
                                                LangGraphFoundNothing
  <1>6. CASE AnswerLlmTools(r) \/ AnswerLangChain(r) \/ AnswerLangGraph(r)
    BY <1>6, AnswerToolsKeepsOutcomes DEF AnswerLlmTools, AnswerLangChain, AnswerLangGraph
  <1>7. CASE RaiseUnmarked(r)
    BY <1>7, RaiseKeepsOutcomes
  <1> QED  BY <1>1, <1>2, <1>3, <1>4, <1>5, <1>6, <1>7 DEF EvaluationStep

LEMMA OutcomesStep ==
    ASSUME OutcomesInv, [EvaluationNext]_vars PROVE OutcomesInv'
  <1>1. ConversationInv'
    BY ConversationStep DEF OutcomesInv
  <1>2. ASSUME NEW r \in Requests, Step(r) \/ EvaluationStep(r) PROVE OutcomesInv'
    BY <1>2, StepKeepsOutcomes, EvaluationStepKeepsOutcomes
  <1>3. CASE UNCHANGED <<askVars, req>> \/ ArchiveSession \/ BeginDelete
    <2>1. UNCHANGED <<asked, created, req, runs>>
      BY <1>3 DEF askVars, inputVars, ArchiveSession, BeginDelete
    <2> QED  BY <1>1, <2>1, OthersKeepOutcomes
  <1>4. CASE FinishDelete
    <2>1. UNCHANGED <<asked, created, req>>
      BY <1>4 DEF FinishDelete, inputVars
    <2>2. \A s \in Requests : Evaluated(s) => runs'[s] = runs[s]
      BY <1>4 DEF FinishDelete, Evaluated, IsAsk
    <2> QED  BY <1>1, <2>1, <2>2, OthersKeepOutcomes
  <1>5. ASSUME NEW p \in Requests \cup {Deletion}, DeadlockVictim(p) PROVE OutcomesInv'
    BY <1>5, VictimKeepsOutcomes
  <1>6. Done \/ UNCHANGED vars => UNCHANGED <<askVars, req>>
    BY DEF Done, vars
  <1> QED  BY <1>2, <1>3, <1>4, <1>5, <1>6 DEF EvaluationNext, Next

\* However the attempts of its cases overlap, fail and crash, what an evaluation reports
\* is what the retrieval run records, but for an attempt overtaken by another one of the
\* same case: a failure after the search marks the run that is latest by then
\* (_latest_retrieval_run_id, mark_failed).
THEOREM OutcomesAreRecorded == EvaluationSpec => []OutcomesRecorded
  <1>1. Init => OutcomesInv
    BY OutcomesInit
  <1>2. OutcomesInv /\ [EvaluationNext]_vars => OutcomesInv'
    BY OutcomesStep
  <1>3. OutcomesInv => OutcomesRecorded
    BY DEF OutcomesInv, OutcomeOf, OutcomesRecorded
  <1> QED  BY <1>1, <1>2, <1>3, PTL DEF EvaluationSpec

-----------------------------------------------------------------------------
(* The cache of results: the inductive invariant. A result is right when a *)
(* retrieval of now returns the same; the operators that say what that is  *)
(* are only compared, never opened.                                        *)

CorpusShape ==
    /\ DOMAIN active = Docs /\ DOMAIN stamp = Docs
    /\ \A d \in Docs : /\ stamp[d] \in Nat
                       /\ active[d] = Archived \/ (active[d] \in Chunks /\ DocOf[active[d]] = d)
    /\ marker \in Nat
    /\ DOMAIN builds = Chunks /\ \A c \in Chunks : builds[c] \in Nat
    /\ DOMAIN projected = Chunks
    /\ aliased = [db |-> aliased.db, neo |-> aliased.neo]

\* A key was built at some time up to now: its fingerprint knows a time of change of
\* every document in its filter that is active still ...
DocumentsPast(key) ==
    /\ key.filter \subseteq Docs
    /\ key.filter = {} => \E m \in 0..marker : key.fingerprint = {<<0, m>>}
    /\ key.filter # {} => \A d \in key.filter : active[d] # Archived =>
          \E row \in key.fingerprint : DocOf[row[1]] = d /\ row[2] \in 0..stamp[d]

\* ... and it knows no build that is still to come.
GraphPast(key) == \A row \in key.graph : row[1] \in Chunks /\ row[2] \in 0..builds[row[1]]
Past(key) == DocumentsPast(key) /\ GraphPast(key)

\* A request of now would find the entry of the key.
DocumentsMatch(key) == key.fingerprint = Fingerprint(key.filter)
GraphMatches(key) == key.graph = GraphFingerprint(key.strategy, key.filter)
Matches(key) == DocumentsMatch(key) /\ GraphMatches(key)

\* What was known when the indexes were searched, and may be known still.
Grown(known) == known.db \subseteq aliased.db /\ known.neo \subseteq aliased.neo
Current(key, search) == search.settled /\ search.aliased = aliased /\ Matches(key)

\* The chunks that are served, those of them with a graph, and those Neo4j shows.
Served(filter) == InScope(filter, ActiveChunks)
Drawn(filter) == InScope(filter, ActiveChunks \cap graphs)
Projected(filter) == InScope(filter, {c \in Chunks : projected[c] = "active"})

\* What a retrieval by a strategy without the graph returns once the index has caught up.
OfferedNow(key, strategy) == Offered(key.query, strategy, Served(key.filter), Served(key.filter))
ItemsNow(key, strategy) ==
    DirectItems(key.query, strategy,
                Checked(key.query, strategy, OfferedNow(key, strategy), Served(key.filter)))
DirectNow(key, strategy) == [items |-> ItemsNow(key, strategy), paths |-> {}]

\* What one over the graph returns once Neo4j has, too.
ProjectedView(filter) == [provider |-> "neo4j", aliased |-> aliased.neo, chunks |-> Drawn(filter)]
StartsNow(key) == StartEntities(ProjectedView(key.filter), key.query)
PathsNow(key) == FoundPaths(ProjectedView(key.filter), key.query, StartsNow(key), MaxDepth)
CandidatesNow(key) ==
    IF key.strategy = "graph_postgres"
    THEN DatabaseCandidates(DatabaseView(key.filter), key.query, MaxDepth)
    ELSE Neo4jCandidates(ProjectedView(key.filter), key.query, StartsNow(key), PathsNow(key),
                         Served(key.filter))
VisibleNow(key) == FirstN(FinalCheck(CandidatesNow(key), Served(key.filter)), TopK)

ResultNow(key) ==
    IF key.strategy \notin GraphStrategies THEN DirectNow(key, key.strategy)
    ELSE IF VisibleNow(key) = <<>> THEN DirectNow(key, GraphFallback)
    ELSE [items |-> PlainItems(VisibleNow(key), RerankTopN), paths |-> PathRecords(VisibleNow(key))]

\* A result that may be stored under a key.
RightFor(key, result) ==
    /\ {"items", "paths", "settled", "aliased"} \subseteq DOMAIN result
    /\ Grown(result.aliased)
    /\ Current(key, result) => [items |-> result.items, paths |-> result.paths] = ResultNow(key)

\* What a request holds on its way to a result it may store: at first by its own strategy,
\* after a graph search that found nothing by the fallback.
OnItsWay(held, key) ==
    LET stage == held.stage
        current == Current(key, held)
    IN /\ stage # "plan"
       /\ stage \in {"lookup", "search", "gap", "check"} => held.paths = {}
       /\ stage \in {"lookup", "hydrate", "gap"} => ~held.locked
       /\ stage \in {"lookup", "hydrate", "search", "gap", "check"} =>
             held.strategy = IF held.locked THEN GraphFallback ELSE key.strategy
       /\ stage \in {"search", "check"} /\ held.locked =>
             key.strategy \in GraphStrategies /\ (current => VisibleNow(key) = <<>>)
       /\ stage = "gap" =>
             /\ key.strategy = "graph_neo4j"
             /\ current => /\ Projected(key.filter) = Drawn(key.filter)
                           /\ held.starts = StartsNow(key) /\ held.offered = PathsNow(key)
       /\ stage = "check" /\ current =>
             held.offered = IF held.strategy \in GraphStrategies THEN CandidatesNow(key)
                            ELSE OfferedNow(key, held.strategy)
       /\ stage = "store" /\ current =>
             [items |-> held.items, paths |-> held.paths] = ResultNow(key)

Fields == {"stage", "key", "strategy", "offered", "starts", "items", "paths", "settled",
           "aliased", "transient", "locked", "put"}

\* What a request carries to the cache.
Carried(held, ask) ==
    LET key == held.key
    IN /\ Fields \subseteq DOMAIN held
       /\ held.stage \in {"idle", "duplicate", "load", "done"} => key = NoKey /\ held.put = NoPut
       /\ held.stage = "idle" => held.paths = {} /\ ~held.locked
       /\ Grown(held.aliased)
       /\ key # NoKey => /\ Cacheable(ask.strategy) /\ Past(key)
                         /\ key.query = ask.query /\ key.strategy = ask.strategy
                         /\ key.filter = ask.filter
       /\ held.put # NoPut => /\ held.stage = "answer" /\ key # NoKey /\ held.put.key = key
                              /\ RightFor(key, held.put.result)
       /\ key # NoKey /\ ~held.transient => OnItsWay(held, key)

EntriesInv == \A key \in DOMAIN entries : \A result \in {entries[key]} : Past(key) /\ RightFor(key, result)

CacheInv ==
    /\ DOMAIN req = Requests /\ AskedAlike /\ CorpusShape
    /\ \A r \in Requests : \A held \in {req[r]}, ask \in {asked[r]} : Carried(held, ask)
    /\ EntriesInv

LEMMA CacheInvInit == ASSUME Init PROVE CacheInv
  <1>1. AskedAlike /\ DOMAIN req = Requests /\ entries = <<>>
    BY DEF Init, AskInit, CacheInit, AskedAlike, Requests
  <1>2. CorpusShape
    BY FirstActiveAssumption DEF Init, CacheInit, CorpusInit, CorpusShape
  <1>3. \A r \in Requests : req[r] = Resting("idle", NoAnswer)
    BY DEF Init, AskInit, Requests
  <1>4. ASSUME NEW ask, NEW held, held = Resting("idle", NoAnswer) PROVE Carried(held, ask)
    BY <1>4 DEF Resting, Carried, Fields, NoKey, NoPut, NoAliases, Grown
  <1> QED  BY <1>1, <1>2, <1>3, <1>4 DEF CacheInv, EntriesInv

-----------------------------------------------------------------------------
(* The corpus changes: what was found before is right still, or no longer  *)
(* matches.                                                                *)

LEMMA ShapeStays == ASSUME CorpusShape, CorpusStep PROVE CorpusShape'
  <1>1. ASSUME NEW d \in Docs, ActivateVersion(d) \/ ArchiveDocument(d) PROVE CorpusShape'
    BY <1>1 DEF ActivateVersion, ArchiveDocument, CorpusShape, Archived, graphVars
  <1>2. ASSUME NEW d \in Docs, MirrorDocument(d) PROVE CorpusShape'
    BY <1>2 DEF MirrorDocument, CorpusShape, graphVars
  <1>3. ASSUME NEW c \in Chunks, BuildGraph(c) PROVE CorpusShape'
    BY <1>3 DEF BuildGraph, CorpusShape, documentVars
  <1>4. ASSUME NEW c \in Chunks, ProjectGraph(c) \/ ProjectionFails(c) PROVE CorpusShape'
    BY <1>4 DEF ProjectGraph, ProjectionFails, CorpusShape, documentVars
  <1> QED  BY <1>1, <1>2, <1>3, <1>4 DEF CorpusStep

\* An entity keeps an alias it was given; so what changed is never what it was again.
LEMMA AliasesGrow ==
    ASSUME CorpusShape, CorpusShape', CorpusStep \/ UNCHANGED corpusVars, NEW known, Grown(known)
    PROVE  Grown(known)' /\ (known = aliased' => aliased' = aliased)
  <1>1. aliased.db \subseteq aliased'.db /\ aliased.neo \subseteq aliased'.neo
    <2>1. CASE UNCHANGED aliased
      BY <2>1
    <2>2. ASSUME NEW c \in Chunks, BuildGraph(c) \/ ProjectGraph(c)
          PROVE  aliased.db \subseteq aliased'.db /\ aliased.neo \subseteq aliased'.neo
      BY <2>2 DEF BuildGraph, ProjectGraph, CorpusShape
    <2>3. ASSUME NEW d \in Docs, ActivateVersion(d) \/ ArchiveDocument(d) \/ MirrorDocument(d)
          PROVE  UNCHANGED aliased
      BY <2>3 DEF ActivateVersion, ArchiveDocument, MirrorDocument, graphVars
    <2>4. ASSUME NEW c \in Chunks, ProjectionFails(c) PROVE UNCHANGED aliased
      BY <2>4 DEF ProjectionFails
    <2> QED  BY <2>1, <2>2, <2>3, <2>4 DEF CorpusStep, corpusVars, graphVars
  <1>2. aliased = [db |-> aliased.db, neo |-> aliased.neo] /\ aliased' = [db |-> aliased'.db, neo |-> aliased'.neo]
    BY DEF CorpusShape
  <1>3. Grown(known)'
    BY <1>1 DEF Grown
  <1>4. ASSUME known = aliased' PROVE aliased.db = aliased'.db /\ aliased.neo = aliased'.neo
    BY <1>1, <1>4 DEF Grown
  <1> QED  BY <1>2, <1>3, <1>4

\* A document that changes, changes its stamp and the marker.
LEMMA ChangeMoves ==
    ASSUME CorpusShape, CorpusShape', NEW d \in Docs, ActivateVersion(d) \/ ArchiveDocument(d),
           NEW key, DocumentsPast(key)
    PROVE  /\ DocumentsPast(key)'
           /\ DocumentsMatch(key)' =>
                 DocumentsMatch(key) /\ Served(key.filter)' = Served(key.filter)
  <1>1. /\ \A e \in Docs \ {d} : active'[e] = active[e] /\ stamp'[e] = stamp[e]
        /\ stamp'[d] = stamp[d] + 1 /\ marker' = marker + 1 /\ active[d] # Archived
    BY DEF ActivateVersion, ArchiveDocument, CorpusShape
  <1>2. CASE key.filter = {}
    <2>1. PICK m \in 0..marker : key.fingerprint = {<<0, m>>}
      BY <1>2 DEF DocumentsPast
    <2>2. m \in 0..marker' /\ m # marker'
      BY <1>1, <2>1 DEF CorpusShape
    <2>3. DocumentsPast(key)'
      BY <1>2, <2>1, <2>2 DEF DocumentsPast
    <2>4. ~DocumentsMatch(key)'
      <3> SUFFICES ASSUME DocumentsMatch(key)' PROVE FALSE
        OBVIOUS
      <3>1. key.fingerprint = {<<0, marker'>>}
        BY <1>2 DEF DocumentsMatch, Fingerprint
      <3>2. <<0, m>> \in {<<0, marker'>>}
        BY <2>1, <3>1
      <3>3. <<0, m>> = <<0, marker'>>
        BY <3>2
      <3> QED  BY <2>2, <3>3
    <2> QED  BY <2>3, <2>4
  <1>3. CASE key.filter # {}
    <2>1. \A e \in key.filter : active[e] # Archived =>
             \E row \in key.fingerprint : DocOf[row[1]] = e /\ row[2] \in 0..stamp[e]
      BY <1>3 DEF DocumentsPast
    <2>2. key.filter \subseteq Docs
      BY DEF DocumentsPast
    <2>3. \A e \in Docs : stamp[e] \in Nat /\ stamp'[e] \in Nat /\ stamp[e] <= stamp'[e]
      BY <1>1 DEF CorpusShape
    <2>4. \A e \in Docs : active'[e] # Archived => active[e] # Archived
      BY <1>1
    <2>5. \A e \in key.filter : active'[e] # Archived =>
             \E row \in key.fingerprint : DocOf[row[1]] = e /\ row[2] \in 0..stamp'[e]
      <3> SUFFICES ASSUME NEW e \in key.filter, active'[e] # Archived
                   PROVE  \E row \in key.fingerprint : DocOf[row[1]] = e /\ row[2] \in 0..stamp'[e]
        OBVIOUS
      <3>1. PICK row \in key.fingerprint : DocOf[row[1]] = e /\ row[2] \in 0..stamp[e]
        BY <2>1, <2>2, <2>4
      <3>2. row[2] \in 0..stamp'[e]
        BY <2>2, <2>3, <3>1
      <3> QED  BY <3>1, <3>2
    <2>6. DocumentsPast(key)'
      BY <1>3, <2>2, <2>5 DEF DocumentsPast
    <2>7. CASE d \in key.filter
      <3>1. PICK row \in key.fingerprint : DocOf[row[1]] = d /\ row[2] \in 0..stamp[d]
        BY <1>1, <2>1, <2>7
      <3>2. ASSUME DocumentsMatch(key)' PROVE FALSE
        <4>1. key.fingerprint = {<<active'[e], stamp'[e]>> : e \in {f \in key.filter : active'[f] # Archived}}
          BY <1>3, <3>2 DEF DocumentsMatch, Fingerprint
        <4>2. PICK e \in key.filter : active'[e] # Archived /\ row = <<active'[e], stamp'[e]>>
          BY <3>1, <4>1
        <4>3. e = d
          BY <2>2, <3>1, <4>2 DEF CorpusShape
        <4>4. row[2] = stamp[d] + 1 /\ stamp[d] \in Nat
          BY <1>1, <2>3, <4>2, <4>3
        <4> QED  BY <3>1, <4>4
      <3> QED  BY <2>6, <3>2
    <2>8. CASE d \notin key.filter
      <3>1. \A e \in key.filter : active'[e] = active[e] /\ stamp'[e] = stamp[e]
        BY <1>1, <2>2, <2>8
      <3>2. Fingerprint(key.filter)' = Fingerprint(key.filter)
        BY <1>3, <3>1 DEF Fingerprint
      <3>3. DocumentsMatch(key)' => DocumentsMatch(key)
        BY <3>2 DEF DocumentsMatch
      <3>4. Served(key.filter)' = Served(key.filter)
        <4>1. \A c : c \in Served(key.filter) <=>
                        \E e \in Docs : c = active[e] /\ c # Archived /\ e \in key.filter
          BY <1>3 DEF Served, InScope, ActiveChunks, CorpusShape
        <4>2. \A c : c \in Served(key.filter)' <=>
                        \E e \in Docs : c = active'[e] /\ c # Archived /\ e \in key.filter
          BY <1>3 DEF Served, InScope, ActiveChunks, CorpusShape
        <4> QED  BY <3>1, <4>1, <4>2
      <3> QED  BY <2>6, <3>3, <3>4
    <2> QED  BY <2>7, <2>8
  <1> QED  BY <1>2, <1>3

\* A build of a served version is one that no key knows; nothing is told by another's.
LEMMA BuildMoves ==
    ASSUME CorpusShape, NEW c \in Chunks, BuildGraph(c), NEW key, GraphPast(key)
    PROVE  /\ GraphPast(key)'
           /\ GraphMatches(key)' => /\ GraphMatches(key)
                                    /\ key.strategy \in GraphStrategies =>
                                          Drawn(key.filter)' = Drawn(key.filter)
  <1>1. /\ builds[c] \in Nat /\ builds'[c] = builds[c] + 1
        /\ \A a \in Chunks \ {c} : builds'[a] = builds[a]
    BY DEF BuildGraph, CorpusShape
  <1>2. UNCHANGED active /\ \A a : a # c => (a \in graphs' <=> a \in graphs)
    BY DEF BuildGraph, documentVars
  <1>3. Served(key.filter)' = Served(key.filter) /\ Served(key.filter) \subseteq Chunks
    BY <1>2 DEF Served, InScope, ActiveChunks, CorpusShape
  <1>4. GraphPast(key)'
    <2> SUFFICES ASSUME NEW row \in key.graph
                 PROVE  row[1] \in Chunks /\ row[2] \in 0..builds'[row[1]]
      BY DEF GraphPast
    <2>1. row[1] \in Chunks /\ row[2] \in 0..builds[row[1]] /\ builds[row[1]] \in Nat
      BY DEF GraphPast, CorpusShape
    <2>2. builds'[row[1]] \in {builds[row[1]], builds[row[1]] + 1}
      BY <1>1, <2>1
    <2> QED  BY <2>1, <2>2
  <1>5. CASE key.strategy \notin GraphStrategies
    BY <1>4, <1>5 DEF GraphMatches, GraphFingerprint
  <1>6. CASE key.strategy \in GraphStrategies /\ c \in Served(key.filter)
    <2>1. SUFFICES ASSUME GraphMatches(key)' PROVE FALSE
      BY <1>4
    <2>2. key.graph = {<<a, builds'[a]>> : a \in {b \in Served(key.filter)' : builds'[b] > 0}}
      BY <1>6, <2>1 DEF GraphMatches, GraphFingerprint, Served
    <2>3. <<c, builds'[c]>> \in key.graph
      BY <1>1, <1>3, <1>6, <2>2
    <2>4. builds'[c] \in 0..builds[c]
      BY <2>3 DEF GraphPast
    <2> QED  BY <1>1, <2>4
  <1>7. CASE key.strategy \in GraphStrategies /\ c \notin Served(key.filter)
    <2>1. \A a \in Served(key.filter) : builds'[a] = builds[a]
      BY <1>1, <1>3, <1>7
    <2>2. GraphFingerprint(key.strategy, key.filter)' = GraphFingerprint(key.strategy, key.filter)
      <3>1. GraphFingerprint(key.strategy, key.filter)
               = {<<a, builds[a]>> : a \in {b \in Served(key.filter) : builds[b] > 0}}
        BY <1>7 DEF GraphFingerprint, Served
      <3>2. GraphFingerprint(key.strategy, key.filter)'
               = {<<a, builds'[a]>> : a \in {b \in Served(key.filter) : builds'[b] > 0}}
        BY <1>3, <1>7 DEF GraphFingerprint, Served
      <3> QED  BY <2>1, <3>1, <3>2
    <2>3. Drawn(key.filter)' = Drawn(key.filter)
      BY <1>2, <1>7 DEF Drawn, Served, InScope, ActiveChunks
    <2> QED  BY <1>4, <2>2, <2>3 DEF GraphMatches
  <1> QED  BY <1>5, <1>6, <1>7

\* A projection writes what is so.
LEMMA ProjectionKeeps ==
    ASSUME CorpusShape, NEW c \in Chunks, ProjectGraph(c), NEW filter, Projected(filter) = Drawn(filter)
    PROVE  Projected(filter)' = Drawn(filter)'
  <1>1. UNCHANGED <<active, graphs>> /\ ActiveChunks \subseteq Chunks
    BY DEF ProjectGraph, documentVars, CorpusShape, ActiveChunks
  <1>2. projected' = [projected EXCEPT ![c] = IF c \in graphs THEN ProjectedStatus(c) ELSE "none"]
    BY DEF ProjectGraph
  <1>3. /\ \A a \in Chunks \ {c} : projected'[a] = projected[a]
        /\ projected'[c] = "active" <=> c \in ActiveChunks \cap graphs
    BY <1>2 DEF CorpusShape, ProjectedStatus
  <1>4. \A a : a \in Projected(filter) <=>
                  a \in Chunks /\ projected[a] = "active" /\ (filter = {} \/ DocOf[a] \in filter)
    BY DEF Projected, InScope
  <1>5. \A a : a \in Projected(filter)' <=>
                  a \in Chunks /\ projected'[a] = "active" /\ (filter = {} \/ DocOf[a] \in filter)
    BY DEF Projected, InScope
  <1>6. \A a : a \in Drawn(filter) <=>
                  a \in ActiveChunks \cap graphs /\ (filter = {} \/ DocOf[a] \in filter)
    BY DEF Drawn, InScope
  <1>7. Drawn(filter)' = Drawn(filter)
    BY <1>1 DEF Drawn, InScope, ActiveChunks
  <1>8. \A a : a \in Projected(filter)' <=> a \in Drawn(filter)
    BY <1>1, <1>3, <1>4, <1>5, <1>6
  <1> QED  BY <1>7, <1>8

\* Whatever happens to the corpus: a key is past still, and while it matches, it has
\* matched before and the request sees what it would have seen.
LEMMA CorpusMoves ==
    ASSUME CorpusShape, CorpusShape', CorpusStep \/ UNCHANGED corpusVars, NEW key, Past(key)
    PROVE  /\ Past(key)'
           /\ Matches(key)' =>
                 /\ Matches(key) /\ Served(key.filter)' = Served(key.filter)
                 /\ key.strategy \in GraphStrategies =>
                       /\ Drawn(key.filter)' = Drawn(key.filter)
                       /\ Projected(key.filter) = Drawn(key.filter) =>
                             Projected(key.filter)' = Drawn(key.filter)'
  <1> DEFINE Seen ==
        /\ Past(key)'
        /\ Matches(key)' =>
              /\ Matches(key) /\ Served(key.filter)' = Served(key.filter)
              /\ key.strategy \in GraphStrategies =>
                    /\ Drawn(key.filter)' = Drawn(key.filter)
                    /\ Projected(key.filter) = Drawn(key.filter) =>
                          Projected(key.filter)' = Drawn(key.filter)'
  <1>1. ASSUME UNCHANGED <<active, stamp, marker>>
        PROVE  /\ DocumentsPast(key)' /\ Served(key.filter)' = Served(key.filter)
               /\ DocumentsMatch(key)' => DocumentsMatch(key)
    BY <1>1 DEF Past, DocumentsPast, DocumentsMatch, Fingerprint, Served, InScope, ActiveChunks
  <1>2. ASSUME UNCHANGED builds, Served(key.filter)' = Served(key.filter)
        PROVE  GraphMatches(key)' => GraphMatches(key)
    BY <1>2 DEF GraphMatches, GraphFingerprint, Served
  <1>3. UNCHANGED builds => GraphPast(key)'
    BY DEF Past, GraphPast
  <1>4. ASSUME NEW d \in Docs, ActivateVersion(d) \/ ArchiveDocument(d) PROVE Seen
    <2>1. UNCHANGED <<builds, graphs, projected>>
      BY <1>4 DEF ActivateVersion, ArchiveDocument, graphVars
    <2>2. DocumentsPast(key)' /\ (DocumentsMatch(key)' => DocumentsMatch(key) /\ Served(key.filter)' = Served(key.filter))
      BY <1>4, ChangeMoves DEF Past
    <2>3. ASSUME Served(key.filter)' = Served(key.filter)
          PROVE  Drawn(key.filter)' = Drawn(key.filter) /\ Projected(key.filter)' = Projected(key.filter)
      <3>1. \A f : Drawn(f) = Served(f) \cap graphs
        BY DEF Drawn, Served, InScope
      <3>2. Drawn(key.filter)' = Served(key.filter)' \cap graphs'
        BY DEF Drawn, Served, InScope
      <3> QED  BY <2>1, <2>3, <3>1, <3>2 DEF Projected, InScope
    <2> QED  BY <1>2, <1>3, <2>1, <2>2, <2>3 DEF Past, Matches
  <1>5. ASSUME NEW d \in Docs, MirrorDocument(d) PROVE UNCHANGED <<active, stamp, marker, graphs, builds, projected>>
    BY <1>5 DEF MirrorDocument, graphVars
  <1>6. ASSUME NEW c \in Chunks, ProjectionFails(c) PROVE UNCHANGED <<active, stamp, marker, graphs, builds, projected>>
    BY <1>6 DEF ProjectionFails, documentVars
  <1>7. UNCHANGED corpusVars => UNCHANGED <<active, stamp, marker, graphs, builds, projected>>
    BY DEF corpusVars, documentVars, graphVars
  <1>8. CASE UNCHANGED <<active, stamp, marker, graphs, builds, projected>>
    <2>1. Drawn(key.filter)' = Drawn(key.filter) /\ Projected(key.filter)' = Projected(key.filter)
      BY <1>8 DEF Drawn, Projected, InScope, ActiveChunks
    <2> QED  BY <1>1, <1>2, <1>3, <1>8, <2>1 DEF Past, Matches
  <1>9. ASSUME NEW c \in Chunks, BuildGraph(c) PROVE Seen
    <2>1. UNCHANGED <<active, stamp, marker, projected>>
      BY <1>9 DEF BuildGraph, documentVars
    <2>2. /\ GraphPast(key)'
          /\ GraphMatches(key)' => GraphMatches(key) /\ (key.strategy \in GraphStrategies => Drawn(key.filter)' = Drawn(key.filter))
      BY <1>9, BuildMoves DEF Past
    <2>3. Projected(key.filter)' = Projected(key.filter)
      BY <2>1 DEF Projected, InScope
    <2> QED  BY <1>1, <2>1, <2>2, <2>3 DEF Past, Matches
  <1>10. ASSUME NEW c \in Chunks, ProjectGraph(c) PROVE Seen
    <2>1. UNCHANGED <<active, stamp, marker, graphs, builds>>
      BY <1>10 DEF ProjectGraph, documentVars
    <2>2. Drawn(key.filter)' = Drawn(key.filter)
      BY <2>1 DEF Drawn, InScope, ActiveChunks
    <2>3. PICK filter : filter = key.filter
      OBVIOUS
    <2>4. Projected(filter) = Drawn(filter) => Projected(filter)' = Drawn(filter)'
      BY <1>10, ProjectionKeeps
    <2> QED  BY <1>1, <1>2, <1>3, <2>1, <2>2, <2>3, <2>4 DEF Past, Matches
  <1> QED  BY <1>4, <1>5, <1>6, <1>7, <1>8, <1>9, <1>10 DEF CorpusStep


\* What a retrieval of now returns depends on what the request sees, and on nothing else.
LEMMA ResultsStay ==
    ASSUME NEW key, Served(key.filter)' = Served(key.filter),
           key.strategy \in GraphStrategies =>
              Drawn(key.filter)' = Drawn(key.filter) /\ aliased' = aliased
    PROVE  /\ \A strategy : OfferedNow(key, strategy)' = OfferedNow(key, strategy)
           /\ ResultNow(key)' = ResultNow(key)
           /\ key.strategy \in GraphStrategies =>
                 /\ StartsNow(key)' = StartsNow(key) /\ PathsNow(key)' = PathsNow(key)
                 /\ CandidatesNow(key)' = CandidatesNow(key) /\ VisibleNow(key)' = VisibleNow(key)
  <1>1. \A strategy : OfferedNow(key, strategy)' = OfferedNow(key, strategy)
    BY DEF OfferedNow
  <1>2. ASSUME NEW strategy PROVE DirectNow(key, strategy)' = DirectNow(key, strategy)
    BY <1>1 DEF DirectNow, ItemsNow
  <1>3. CASE key.strategy \notin GraphStrategies
    <2>1. DirectNow(key, key.strategy)' = DirectNow(key, key.strategy)
      BY <1>2
    <2> QED  BY <1>1, <1>3, <2>1 DEF ResultNow
  <1>4. CASE key.strategy \in GraphStrategies
    <2>1. /\ ProjectedView(key.filter)' = ProjectedView(key.filter)
          /\ DatabaseView(key.filter)' = DatabaseView(key.filter)
      BY <1>4 DEF ProjectedView, DatabaseView, Drawn
    <2>2. StartsNow(key)' = StartsNow(key)
      BY <2>1 DEF StartsNow
    <2>3. PathsNow(key)' = PathsNow(key)
      BY <2>1, <2>2 DEF PathsNow
    <2>4. CandidatesNow(key)' = CandidatesNow(key)
      BY <2>1, <2>2, <2>3 DEF CandidatesNow
    <2>5. VisibleNow(key)' = VisibleNow(key)
      BY <2>4 DEF VisibleNow
    <2>6. DirectNow(key, GraphFallback)' = DirectNow(key, GraphFallback)
      BY <1>2
    <2>7. ResultNow(key)' = ResultNow(key)
      BY <1>4, <2>5, <2>6 DEF ResultNow
    <2> QED  BY <1>1, <2>2, <2>3, <2>4, <2>5, <2>7
  <1> QED  BY <1>3, <1>4

LEMMA CurrentStays ==
    ASSUME CorpusShape, CorpusShape', CorpusStep \/ UNCHANGED corpusVars, NEW key, Past(key),
           NEW search, Grown(search.aliased), Current(key, search)'
    PROVE  /\ Current(key, search)
           /\ \A strategy : OfferedNow(key, strategy)' = OfferedNow(key, strategy)
           /\ ResultNow(key)' = ResultNow(key)
           /\ key.strategy \in GraphStrategies =>
                 /\ StartsNow(key)' = StartsNow(key) /\ PathsNow(key)' = PathsNow(key)
                 /\ CandidatesNow(key)' = CandidatesNow(key) /\ VisibleNow(key)' = VisibleNow(key)
                 /\ Projected(key.filter) = Drawn(key.filter) =>
                       Projected(key.filter)' = Drawn(key.filter)'
  <1>1. search.settled /\ search.aliased = aliased' /\ Matches(key)'
    BY DEF Current
  <1>2. PICK known : known = search.aliased
    OBVIOUS
  <1>3. aliased' = aliased
    BY <1>1, <1>2, AliasesGrow
  <1>4. /\ Matches(key) /\ Served(key.filter)' = Served(key.filter)
        /\ key.strategy \in GraphStrategies =>
              /\ Drawn(key.filter)' = Drawn(key.filter)
              /\ Projected(key.filter) = Drawn(key.filter) => Projected(key.filter)' = Drawn(key.filter)'
    BY <1>1, CorpusMoves
  <1>5. Current(key, search)
    BY <1>1, <1>3, <1>4 DEF Current
  <1>6. /\ \A strategy : OfferedNow(key, strategy)' = OfferedNow(key, strategy)
        /\ ResultNow(key)' = ResultNow(key)
        /\ key.strategy \in GraphStrategies =>
              /\ StartsNow(key)' = StartsNow(key) /\ PathsNow(key)' = PathsNow(key)
              /\ CandidatesNow(key)' = CandidatesNow(key) /\ VisibleNow(key)' = VisibleNow(key)
    BY <1>3, <1>4, ResultsStay
  <1> QED  BY <1>4, <1>5, <1>6

LEMMA RightStays ==
    ASSUME CorpusShape, CorpusShape', CorpusStep \/ UNCHANGED corpusVars, NEW key, Past(key),
           NEW result, RightFor(key, result)
    PROVE  RightFor(key, result)'
  <1>1. Grown(result.aliased)'
    <2>1. PICK known : known = result.aliased
      OBVIOUS
    <2> QED  BY <2>1, AliasesGrow DEF RightFor
  <1>2. Current(key, result)' => [items |-> result.items, paths |-> result.paths] = ResultNow(key)'
    BY CurrentStays DEF RightFor
  <1> QED  BY <1>1, <1>2 DEF RightFor

LEMMA WayStays ==
    ASSUME CorpusShape, CorpusShape', CorpusStep \/ UNCHANGED corpusVars, NEW key, Past(key),
           NEW held, Grown(held.aliased), OnItsWay(held, key)
    PROVE  OnItsWay(held, key)'
  <1>1. CASE Current(key, held)'
    <2>1. /\ Current(key, held)
          /\ \A strategy : OfferedNow(key, strategy)' = OfferedNow(key, strategy)
          /\ ResultNow(key)' = ResultNow(key)
          /\ key.strategy \in GraphStrategies =>
                /\ StartsNow(key)' = StartsNow(key) /\ PathsNow(key)' = PathsNow(key)
                /\ CandidatesNow(key)' = CandidatesNow(key) /\ VisibleNow(key)' = VisibleNow(key)
                /\ Projected(key.filter) = Drawn(key.filter) =>
                      Projected(key.filter)' = Drawn(key.filter)'
      BY <1>1, CurrentStays
    <2>2. /\ "graph_neo4j" \in GraphStrategies /\ GraphFallback \notin GraphStrategies
      BY DEF GraphStrategies, GraphFallback
    <2> QED  BY <2>1, <2>2 DEF OnItsWay
  <1>2. CASE ~Current(key, held)'
    BY <1>2 DEF OnItsWay
  <1> QED  BY <1>1, <1>2

LEMMA CarriedStays ==
    ASSUME CorpusShape, CorpusShape', CorpusStep \/ UNCHANGED corpusVars, NEW held, NEW ask,
           Carried(held, ask)
    PROVE  Carried(held, ask)'
  <1>1. PICK key, known, result : key = held.key /\ known = held.aliased /\ result = held.put.result
    OBVIOUS
  <1>2. Grown(known)'
    BY <1>1, AliasesGrow DEF Carried
  <1>3. key # NoKey => Past(key) /\ Past(key)'
    BY <1>1, CorpusMoves DEF Carried
  <1>4. held.put # NoPut => key # NoKey /\ RightFor(key, result)'
    BY <1>1, <1>3, RightStays DEF Carried
  <1>5. key # NoKey /\ ~held.transient => OnItsWay(held, key)'
    BY <1>1, <1>3, WayStays DEF Carried
  <1> QED  BY <1>1, <1>2, <1>3, <1>4, <1>5 DEF Carried

LEMMA EntriesStay ==
    ASSUME CacheInv, CorpusShape', CorpusStep \/ UNCHANGED corpusVars, entries' = entries
    PROVE  EntriesInv'
  <1>1. ASSUME NEW key \in DOMAIN entries, NEW result, result = entries[key]
        PROVE  Past(key)' /\ RightFor(key, result)'
    <2>1. Past(key) /\ RightFor(key, result)
      BY <1>1 DEF CacheInv, EntriesInv
    <2> QED  BY <2>1, CorpusMoves, RightStays DEF CacheInv
  <1> QED  BY <1>1 DEF EntriesInv

LEMMA ShapeUnchanged == ASSUME CorpusShape, UNCHANGED corpusVars PROVE CorpusShape'
  BY DEF CorpusShape, corpusVars, documentVars, graphVars

\* A step of one request.
LEMMA RequestKeepsCache ==
    ASSUME CacheInv, NEW r \in Requests, UNCHANGED <<corpusVars, asked>>, DOMAIN req' = Requests,
           \A s \in Requests \ {r} : req'[s] = req[s], EntriesInv',
           NEW new, new = req'[r], NEW ask, ask = asked[r], Carried(new, ask)
    PROVE  CacheInv'
  <1>1. Requests' = Requests /\ AskedAlike' /\ CorpusShape'
    BY ShapeUnchanged DEF CacheInv, AskedAlike, Requests
  <1>2. Carried(new, ask)'
    BY <1>1, CarriedStays DEF CacheInv
  <1>3. ASSUME NEW s \in Requests \ {r}, NEW held, held = req[s], NEW other, other = asked[s]
        PROVE  Carried(held, other)'
    BY <1>1, <1>3, CarriedStays DEF CacheInv
  <1> QED  BY <1>1, <1>2, <1>3 DEF CacheInv

\* A step that touches no request.
LEMMA WorldKeepsCache ==
    ASSUME CacheInv, CorpusStep \/ UNCHANGED corpusVars, UNCHANGED <<asked, req>>, EntriesInv'
    PROVE  CacheInv'
  <1>1. Requests' = Requests /\ AskedAlike' /\ CorpusShape'
    BY ShapeStays, ShapeUnchanged DEF CacheInv, AskedAlike, Requests
  <1>2. ASSUME NEW s \in Requests, NEW held, held = req[s], NEW ask, ask = asked[s]
        PROVE  Carried(held, ask)'
    BY <1>1, <1>2, CarriedStays DEF CacheInv
  <1> QED  BY <1>1, <1>2 DEF CacheInv

-----------------------------------------------------------------------------
(* Steps of a request, by what they do to what it carries.                 *)

\* A request goes on with its key and without a put.
Carries(r, new) ==
    /\ UNCHANGED <<corpusVars, asked, entries>>
    /\ DOMAIN req' = Requests /\ req'[r] = new
    /\ \A s \in Requests \ {r} : req'[s] = req[s]
    /\ req[r].stage \in Working \ {"answer"} /\ new.stage \in Working
    /\ Fields \subseteq DOMAIN new
    /\ new.key = req[r].key /\ new.put = req[r].put

\* What a request with a key is.
LEMMA Holding ==
    ASSUME CacheInv, NEW r \in Requests, NEW held, held = req[r]
    PROVE  /\ DOMAIN req = Requests /\ Fields \subseteq DOMAIN held /\ Grown(held.aliased)
           /\ held.stage \in Working \ {"answer"} => held.put = NoPut
           /\ held.key # NoKey =>
                 /\ ~ByTools(r) /\ ~Agentic(r) /\ Cacheable(asked[r].strategy) /\ Past(held.key)
                 /\ held.key.query = asked[r].query /\ held.key.strategy = asked[r].strategy
                 /\ held.key.filter = asked[r].filter
                 /\ ~held.transient => OnItsWay(held, held.key)
  <1>1. Carried(held, asked[r]) /\ DOMAIN req = Requests
    BY DEF CacheInv
  <1>2. Cacheable(asked[r].strategy) => ~ByTools(r) /\ ~Agentic(r)
    BY DEF Cacheable, ByTools, ToolStrategies, Agentic, GraphStrategies
  <1> QED  BY <1>1, <1>2 DEF Carried, Working

LEMMA CarryingKeeps ==
    ASSUME CacheInv, NEW r \in Requests, NEW new, Carries(r, new), Grown(new.aliased),
           new.key # NoKey /\ ~new.transient => OnItsWay(new, new.key)
    PROVE  CacheInv'
  <1>1. PICK held, ask : held = req[r] /\ ask = asked[r]
    OBVIOUS
  <1>2. Carried(held, ask) /\ UNCHANGED corpusVars /\ CorpusShape'
    BY <1>1, ShapeUnchanged DEF CacheInv, Carries
  <1>3. Carried(new, ask)
    BY <1>1, <1>2 DEF Carried, Carries, Working
  <1>4. EntriesInv'
    BY <1>2, EntriesStay DEF Carries
  <1> QED  BY <1>1, <1>3, <1>4, RequestKeepsCache DEF Carries

\* The loops of agents and of tools have no key.
LEMMA LoopsCarry ==
    ASSUME CacheInv, NEW r \in Requests,
           \/ PlanCalls(r) \/ CallSearch(r) \/ CallOther(r) \/ TimesOut(r) \/ CheckTool(r)
           \/ (CheckAgentic(r) \/ FinishLoop(r)) /\ ~Refuse(r, "error")
    PROVE  CacheInv'
  <1>1. PICK held, new : held = req[r] /\ new = req'[r]
    OBVIOUS
  <1>2. DOMAIN req = Requests /\ Fields \subseteq DOMAIN held /\ Grown(held.aliased)
    BY <1>1, Holding
  <1>3. UNCHANGED <<corpusVars, asked, entries>>
    BY DEF PlanCalls, CallSearch, CallOther, TimesOut, CheckTool, CheckAgentic, FinishLoop,
           cacheVars, askVars, inputVars
  <1>4. held.key = NoKey \/ held.transient
    <2>1. held.stage = "plan" \/ ByTools(r) \/ Agentic(r)
      BY <1>1 DEF PlanCalls, CallSearch, CallOther, TimesOut, CheckTool, CheckAgentic, FinishLoop
    <2> QED  BY <1>1, <2>1, Holding DEF OnItsWay
  <1>5. Carries(r, new) /\ new.aliased = held.aliased /\ new.transient = held.transient
    <2> USE DEF Carries, Working, Fields
    <2>1. CASE PlanCalls(r)            BY <1>1, <1>2, <1>3, <2>1 DEF PlanCalls
    <2>2. CASE CallSearch(r)           BY <1>1, <1>2, <1>3, <2>2 DEF CallSearch
    <2>3. CASE CallOther(r)            BY <1>1, <1>2, <1>3, <2>3 DEF CallOther
    <2>4. CASE TimesOut(r)             BY <1>1, <1>2, <1>3, <2>4 DEF TimesOut
    <2>5. CASE CheckTool(r)            BY <1>1, <1>2, <1>3, <2>5 DEF CheckTool
    <2>6. CASE FinishLoop(r) /\ ~Refuse(r, "error")
      BY <1>1, <1>2, <1>3, <2>6 DEF FinishLoop
    <2>7. CASE CheckAgentic(r) /\ ~Refuse(r, "error")
      <3>1. req[r].stage = "check"
        BY <2>7 DEF CheckAgentic
      <3>2. CASE \E attempts, seen, items : req' = [req EXCEPT ![r] = [@ EXCEPT
                     !.stage = "store", !.items = items, !.seen = seen,
                     !.locked = TRUE, !.attempts = <<>>, !.offered = <<>>]]
        BY <1>1, <1>2, <1>3, <3>1, <3>2
      <3>3. CASE \E attempts, seen, fallback : req' = [req EXCEPT ![r] = [@ EXCEPT
                     !.stage = "search", !.strategy = fallback, !.attempts = attempts,
                     !.seen = seen, !.offered = <<>>]]
        BY <1>1, <1>2, <1>3, <3>1, <3>3
      <3> QED  BY <2>7, <3>2, <3>3 DEF CheckAgentic
    <2> QED  BY <2>1, <2>2, <2>3, <2>4, <2>5, <2>6, <2>7
  <1>6. new.key = held.key
    BY <1>1, <1>5 DEF Carries
  <1> QED  BY <1>2, <1>4, <1>5, <1>6, CarryingKeeps

LEMMA LookupKeepsCache ==
    ASSUME CacheInv, NEW r \in Requests, Lookup(r) \/ LookupFails(r) \/ Hydrate(r)
    PROVE  CacheInv'
  <1>1. PICK held, new, key : held = req[r] /\ new = req'[r] /\ key = req[r].key
    OBVIOUS
  <1>2. DOMAIN req = Requests /\ Fields \subseteq DOMAIN held /\ Grown(held.aliased)
    BY <1>1, Holding
  <1>3. UNCHANGED <<corpusVars, asked, entries>>
    BY DEF Lookup, LookupFails, Hydrate, cacheVars, askVars, inputVars
  <1>4. /\ Carries(r, new) /\ new.aliased = held.aliased /\ new.transient = held.transient
        /\ new.locked = held.locked
        /\ \/ /\ held.stage = "lookup" /\ new.stage \in {"hydrate", "search"}
              /\ new.strategy = held.strategy /\ (new.stage = "search" => new.paths = held.paths)
           \/ /\ held.stage = "hydrate"
              /\ new.stage = "answer" \/ (new.stage = "search" /\ new.strategy = held.strategy /\ new.paths = {})
    <2> USE DEF Carries, Working, Fields
    <2>1. CASE Lookup(r)         BY <1>1, <1>2, <1>3, <2>1 DEF Lookup
    <2>2. CASE LookupFails(r)    BY <1>1, <1>2, <1>3, <2>2 DEF LookupFails
    <2>3. CASE Hydrate(r)        BY <1>1, <1>2, <1>3, <2>3 DEF Hydrate
    <2> QED  BY <2>1, <2>2, <2>3
  <1>5. new.key = key
    BY <1>1, <1>4 DEF Carries
  <1>6. ASSUME key # NoKey, ~new.transient PROVE OnItsWay(new, key)
    <2>1. OnItsWay(held, key)
      BY <1>1, <1>4, <1>6, Holding
    <2> QED  BY <1>4, <2>1 DEF OnItsWay
  <1> QED  BY <1>2, <1>4, <1>5, <1>6, CarryingKeeps

\* A search is right when the indexes have caught up with what is served.
LEMMA SearchKeepsCache ==
    ASSUME CacheInv, NEW r \in Requests, Search(r) PROVE CacheInv'
  <1>1. PICK held, new, key : held = req[r] /\ new = req'[r] /\ key = req[r].key
    OBVIOUS
  <1>2. DOMAIN req = Requests /\ Fields \subseteq DOMAIN held /\ Grown(held.aliased)
    BY <1>1, Holding
  <1>3. UNCHANGED <<corpusVars, asked, entries>> /\ held.stage = "search" /\ held.strategy \notin GraphStrategies
    BY <1>1 DEF Search, ByGraph, cacheVars, askVars, inputVars
  <1>4. PICK looked : looked = Observed(r)
    OBVIOUS
  <1>5. /\ Fields \subseteq DOMAIN looked /\ looked.key = key /\ looked.put = held.put
        /\ looked.strategy = held.strategy /\ looked.paths = held.paths
        /\ looked.transient = held.transient /\ looked.locked = held.locked
        /\ looked.aliased = held.aliased \/ looked.aliased = aliased
        /\ key # NoKey /\ held.locked => looked.aliased = held.aliased
        /\ key # NoKey /\ looked.settled =>
              Settled(asked[r].strategy, asked[r].filter) /\ (held.locked => held.settled)
    BY <1>1, <1>2, <1>4 DEF Observed, Fields
  <1>6. PICK offered :
           /\ offered = Offered(IF ByTools(r) THEN req[r].loop.query ELSE asked[r].query,
                                held.strategy, InScope(asked[r].filter, VectorIndex(r)), Scope(r))
           /\ req' = [req EXCEPT ![r] = [looked EXCEPT !.stage = "check", !.offered = offered]]
    BY <1>1, <1>4 DEF Search
  <1>7. /\ new.stage = "check" /\ new.offered = offered /\ new.settled = looked.settled
        /\ new.strategy = looked.strategy /\ new.paths = looked.paths /\ new.key = key
        /\ new.transient = looked.transient /\ new.locked = looked.locked
        /\ new.aliased = looked.aliased /\ new.put = held.put /\ Fields \subseteq DOMAIN new
    BY <1>1, <1>2, <1>5, <1>6 DEF Fields
  <1>8. Carries(r, new)
    BY <1>1, <1>2, <1>3, <1>6, <1>7 DEF Carries, Working
  <1>9. ASSUME key # NoKey, ~new.transient PROVE OnItsWay(new, key)
    <2>1. /\ OnItsWay(held, key) /\ ~ByTools(r)
          /\ key.query = asked[r].query /\ key.filter = asked[r].filter /\ key.strategy = asked[r].strategy
      BY <1>1, <1>5, <1>7, <1>9, Holding
    <2>2. ASSUME new.settled PROVE new.offered = OfferedNow(key, new.strategy)
      <3>1. InScope(asked[r].filter, VectorIndex(r)) = Served(asked[r].filter)
        BY <1>5, <1>7, <1>9, <2>2 DEF Settled, VectorIndex, Served
      <3> QED  BY <1>5, <1>6, <1>7, <2>1, <3>1 DEF OfferedNow, Served, Scope
    <2>3. Current(key, new) /\ held.locked => Current(key, held)
      BY <1>5, <1>7, <1>9 DEF Current
    <2> QED  BY <1>3, <1>5, <1>7, <2>1, <2>2, <2>3 DEF OnItsWay, Current
  <1>10. Grown(aliased)
    BY DEF Grown
  <1> QED  BY <1>2, <1>5, <1>7, <1>8, <1>9, <1>10, CarryingKeeps

-----------------------------------------------------------------------------
(* A search of the graph.                                                  *)

LEMMA DatabaseGraphKeepsCache ==
    ASSUME CacheInv, NEW r \in Requests, SearchDatabaseGraph(r) PROVE CacheInv'
  <1>1. PICK held, new, key : held = req[r] /\ new = req'[r] /\ key = req[r].key
    OBVIOUS
  <1>2. DOMAIN req = Requests /\ Fields \subseteq DOMAIN held /\ Grown(held.aliased) /\ Grown(aliased)
    BY <1>1, Holding DEF Grown
  <1>3. /\ UNCHANGED <<corpusVars, asked, entries>> /\ held.stage = "search"
        /\ held.strategy = "graph_postgres"
    BY <1>1 DEF SearchDatabaseGraph, cacheVars, askVars, inputVars
  <1>4. PICK looked : looked = Observed(r)
    OBVIOUS
  <1>5. /\ Fields \subseteq DOMAIN looked /\ looked.key = key /\ looked.put = held.put
        /\ looked.strategy = held.strategy /\ looked.paths = held.paths
        /\ looked.transient = held.transient /\ looked.locked = held.locked
        /\ looked.aliased = held.aliased \/ looked.aliased = aliased
    BY <1>1, <1>2, <1>4 DEF Observed, Fields
  <1>6. PICK steps, offered :
           /\ steps \in 0..MaxDepth
           /\ offered = DatabaseCandidates(DatabaseView(asked[r].filter), asked[r].query, steps)
           /\ req' = [req EXCEPT ![r] = [looked EXCEPT
                !.stage = "check", !.transient = looked.transient \/ steps < MaxDepth, !.offered = offered]]
    BY <1>4 DEF SearchDatabaseGraph
  <1>7. /\ new.stage = "check" /\ new.offered = offered /\ new.strategy = looked.strategy
        /\ ~new.transient => ~looked.transient /\ ~(steps < MaxDepth)
        /\ new.paths = looked.paths /\ new.key = key /\ new.locked = looked.locked
        /\ new.aliased = looked.aliased /\ new.put = held.put /\ Fields \subseteq DOMAIN new
    BY <1>1, <1>2, <1>5, <1>6 DEF Fields
  <1>8. Carries(r, new)
    BY <1>1, <1>2, <1>3, <1>6, <1>7 DEF Carries, Working
  <1>9. ASSUME key # NoKey, ~new.transient PROVE OnItsWay(new, key)
    <2>1. /\ OnItsWay(held, key)
          /\ key.query = asked[r].query /\ key.filter = asked[r].filter
      BY <1>1, <1>5, <1>7, <1>9, Holding
    <2>2. ~held.locked /\ key.strategy = "graph_postgres"
      BY <1>3, <2>1 DEF OnItsWay, GraphFallback
    <2>3. steps = MaxDepth
      BY <1>6, <1>7, <1>9, DepthAssumption
    <2>4. new.offered = CandidatesNow(key)
      BY <1>6, <1>7, <2>1, <2>2, <2>3 DEF CandidatesNow
    <2> QED  BY <1>3, <1>5, <1>7, <2>1, <2>2, <2>4 DEF OnItsWay, GraphStrategies
  <1> QED  BY <1>2, <1>5, <1>7, <1>8, <1>9, CarryingKeeps

LEMMA Neo4jKeepsCache ==
    ASSUME CacheInv, NEW r \in Requests, SearchNeo4j(r) PROVE CacheInv'
  <1>1. PICK held, new, key : held = req[r] /\ new = req'[r] /\ key = req[r].key
    OBVIOUS
  <1>2. DOMAIN req = Requests /\ Fields \subseteq DOMAIN held /\ Grown(held.aliased) /\ Grown(aliased)
    BY <1>1, Holding DEF Grown
  <1>3. /\ UNCHANGED <<corpusVars, asked, entries>> /\ held.stage = "search"
        /\ held.strategy = "graph_neo4j"
    BY <1>1 DEF SearchNeo4j, cacheVars, askVars, inputVars
  <1>4. PICK looked : looked = Observed(r)
    OBVIOUS
  <1>5. /\ Fields \subseteq DOMAIN looked /\ looked.key = key /\ looked.put = held.put
        /\ looked.strategy = held.strategy /\ looked.paths = held.paths
        /\ looked.transient = held.transient /\ looked.locked = held.locked
        /\ looked.aliased = held.aliased \/ looked.aliased = aliased
        /\ key # NoKey /\ ~held.locked /\ looked.settled => Settled(asked[r].strategy, asked[r].filter)
    BY <1>1, <1>2, <1>4 DEF Observed, Fields
  <1>6. PICK starts, offered :
           /\ starts = StartEntities(Neo4jView(asked[r].filter), asked[r].query)
           /\ offered = FoundPaths(Neo4jView(asked[r].filter), asked[r].query, starts, MaxDepth)
           /\ req' = [req EXCEPT ![r] = [looked EXCEPT
                !.stage = "gap", !.starts = starts, !.offered = offered]]
    BY <1>4 DEF SearchNeo4j
  <1>7. /\ new.stage = "gap" /\ new.offered = offered /\ new.starts = starts
        /\ new.strategy = looked.strategy /\ new.settled = looked.settled
        /\ new.transient = looked.transient
        /\ new.paths = looked.paths /\ new.key = key /\ new.locked = looked.locked
        /\ new.aliased = looked.aliased /\ new.put = held.put /\ Fields \subseteq DOMAIN new
    BY <1>1, <1>2, <1>5, <1>6 DEF Fields
  <1>8. Carries(r, new)
    BY <1>1, <1>2, <1>3, <1>6, <1>7 DEF Carries, Working
  <1>9. ASSUME key # NoKey, ~new.transient PROVE OnItsWay(new, key)
    <2>1. /\ OnItsWay(held, key) /\ key.strategy = asked[r].strategy
          /\ key.query = asked[r].query /\ key.filter = asked[r].filter
      BY <1>1, <1>5, <1>7, <1>9, Holding
    <2>2. ~held.locked /\ key.strategy = "graph_neo4j"
      BY <1>3, <2>1 DEF OnItsWay, GraphFallback
    <2>3. ASSUME new.settled
          PROVE  /\ Projected(key.filter) = Drawn(key.filter)
                 /\ new.starts = StartsNow(key) /\ new.offered = PathsNow(key)
      <3>1. Projected(key.filter) = Drawn(key.filter)
        BY <1>5, <1>7, <1>9, <2>1, <2>2, <2>3 DEF Settled, Neo4jView, DatabaseView, Projected, Drawn
      <3>2. Neo4jView(key.filter) = ProjectedView(key.filter)
        BY <3>1 DEF Neo4jView, ProjectedView, Projected
      <3> QED  BY <1>6, <1>7, <2>1, <3>1, <3>2 DEF StartsNow, PathsNow
    <2> QED  BY <1>3, <1>5, <1>7, <2>1, <2>2, <2>3 DEF OnItsWay, Current
  <1> QED  BY <1>2, <1>5, <1>7, <1>8, <1>9, CarryingKeeps

\* What another store answers, or nobody, is not for the cache.
LEMMA DetoursKeepCache ==
    ASSUME CacheInv, NEW r \in Requests,
           Neo4jFails(r) \/ (CheckProjection(r) /\ ProjectionGap(asked[r].filter))
    PROVE  CacheInv'
  <1>1. PICK held, new : held = req[r] /\ new = req'[r]
    OBVIOUS
  <1>2. DOMAIN req = Requests /\ Fields \subseteq DOMAIN held /\ Grown(held.aliased)
    BY <1>1, Holding
  <1>3. UNCHANGED <<corpusVars, asked, entries>> /\ held.stage \in {"search", "gap"}
    BY <1>1 DEF Neo4jFails, CheckProjection, cacheVars, askVars, inputVars
  <1>4. ASSUME ToDatabaseGraph(r)
        PROVE  Carries(r, new) /\ new.transient /\ new.aliased = held.aliased
    BY <1>1, <1>2, <1>3, <1>4 DEF ToDatabaseGraph, Carries, Fields, Working
  <1>5. ASSUME req' = [req EXCEPT ![r] = [@ EXCEPT !.stage = "check", !.transient = TRUE,
                                              !.starts = <<>>, !.offered = <<>>,
                                              !.lost = Evaluated(r)]]
        PROVE  Carries(r, new) /\ new.transient /\ new.aliased = held.aliased
    BY <1>1, <1>2, <1>3, <1>5 DEF Carries, Fields, Working
  <1>6. Carries(r, new) /\ new.transient /\ new.aliased = held.aliased
    BY <1>4, <1>5 DEF Neo4jFails, CheckProjection
  <1> QED  BY <1>2, <1>6, CarryingKeeps

LEMMA ProjectionKeepsCache ==
    ASSUME CacheInv, NEW r \in Requests, CheckProjection(r), ~ProjectionGap(asked[r].filter)
    PROVE  CacheInv'
  <1>1. PICK held, new, key : held = req[r] /\ new = req'[r] /\ key = req[r].key
    OBVIOUS
  <1>2. DOMAIN req = Requests /\ Fields \subseteq DOMAIN held /\ Grown(held.aliased)
    BY <1>1, Holding
  <1>3. UNCHANGED <<corpusVars, asked, entries>> /\ held.stage = "gap"
    BY <1>1 DEF CheckProjection, cacheVars, askVars, inputVars
  <1>4. PICK offered :
           /\ offered = Neo4jCandidates(Neo4jView(asked[r].filter), asked[r].query,
                                        held.starts, held.offered, Scope(r))
           /\ req' = [req EXCEPT ![r] = [held EXCEPT
                !.stage = "check", !.starts = <<>>, !.offered = offered]]
    BY <1>1 DEF CheckProjection
  <1>5. /\ new.stage = "check" /\ new.offered = offered
        /\ new.strategy = held.strategy /\ new.settled = held.settled
        /\ new.transient = held.transient
        /\ new.paths = held.paths /\ new.key = key /\ new.locked = held.locked
        /\ new.aliased = held.aliased /\ new.put = held.put /\ Fields \subseteq DOMAIN new
    BY <1>1, <1>2, <1>4 DEF Fields
  <1>6. Carries(r, new)
    BY <1>1, <1>2, <1>3, <1>4, <1>5 DEF Carries, Working
  <1>7. ASSUME key # NoKey, ~new.transient PROVE OnItsWay(new, key)
    <2>1. OnItsWay(held, key) /\ key.query = asked[r].query /\ key.filter = asked[r].filter
      BY <1>1, <1>5, <1>7, Holding
    <2>2. ~held.locked /\ key.strategy = "graph_neo4j" /\ held.strategy = key.strategy /\ held.paths = {}
      BY <1>3, <2>1 DEF OnItsWay
    <2>3. ASSUME Current(key, new) PROVE new.offered = CandidatesNow(key)
      <3>1. /\ Projected(key.filter) = Drawn(key.filter)
            /\ held.starts = StartsNow(key) /\ held.offered = PathsNow(key)
        BY <1>3, <1>5, <2>1, <2>3 DEF OnItsWay, Current
      <3>2. Neo4jView(key.filter) = ProjectedView(key.filter)
        BY <3>1 DEF Neo4jView, ProjectedView, Projected
      <3>3. Scope(r) = Served(key.filter)
        BY <2>1 DEF Scope, Served
      <3> QED  BY <1>4, <1>5, <2>1, <2>2, <3>1, <3>2, <3>3 DEF CandidatesNow
    <2> QED  BY <1>5, <2>2, <2>3 DEF OnItsWay, GraphStrategies
  <1> QED  BY <1>2, <1>5, <1>6, <1>7, CarryingKeeps

LEMMA GraphResultsKeepCache ==
    ASSUME CacheInv, NEW r \in Requests, CheckGraph(r) \/ FallBack(r) PROVE CacheInv'
  <1>1. PICK held, new, key : held = req[r] /\ new = req'[r] /\ key = req[r].key
    OBVIOUS
  <1>2. DOMAIN req = Requests /\ Fields \subseteq DOMAIN held /\ Grown(held.aliased)
    BY <1>1, Holding
  <1>3. /\ UNCHANGED <<corpusVars, asked, entries>> /\ held.stage = "check"
        /\ held.strategy \in GraphStrategies
    BY <1>1 DEF CheckGraph, FallBack, ByGraph, cacheVars, askVars, inputVars
  <1>4. ASSUME key # NoKey, ~held.transient
        PROVE  /\ key.strategy = held.strategy /\ held.paths = {}
               /\ Current(key, held) => Visible(r) = VisibleNow(key)
    <2>1. OnItsWay(held, key) /\ key.filter = asked[r].filter
      BY <1>1, <1>4, Holding
    <2>2. key.strategy = held.strategy /\ held.paths = {}
      BY <1>3, <2>1 DEF OnItsWay, GraphFallback, GraphStrategies
    <2>3. Current(key, held) => held.offered = CandidatesNow(key)
      BY <1>3, <2>1 DEF OnItsWay
    <2>4. Scope(r) = Served(key.filter)
      BY <2>1 DEF Scope, Served
    <2> QED  BY <1>1, <2>2, <2>3, <2>4 DEF Visible, VisibleNow
  <1>5. CASE CheckGraph(r)
    <2>1. PICK items, paths, seen :
             /\ items = PlainItems(Visible(r), RerankTopN) /\ paths = PathRecords(Visible(r))
             /\ req' = [req EXCEPT ![r] = [held EXCEPT
                  !.stage = "store", !.items = items, !.paths = paths, !.seen = seen,
                  !.locked = TRUE, !.offered = <<>>]]
      BY <1>1, <1>5 DEF CheckGraph
    <2>2. /\ new.stage = "store" /\ new.items = items /\ new.paths = paths
          /\ new.settled = held.settled /\ new.transient = held.transient /\ new.key = key
          /\ new.aliased = held.aliased /\ new.put = held.put /\ Fields \subseteq DOMAIN new
      BY <1>1, <1>2, <2>1 DEF Fields
    <2>3. Carries(r, new)
      BY <1>1, <1>2, <1>3, <2>1, <2>2 DEF Carries, Working
    <2>4. ASSUME key # NoKey, ~new.transient, Current(key, new)
          PROVE  [items |-> items, paths |-> paths] = ResultNow(key)
      <3>1. Current(key, held)
        BY <2>2, <2>4 DEF Current
      <3>2. Visible(r) = VisibleNow(key) /\ Visible(r) # <<>> /\ key.strategy \in GraphStrategies
        BY <1>3, <1>4, <1>5, <2>2, <2>4, <3>1 DEF CheckGraph
      <3> QED  BY <2>1, <3>2 DEF ResultNow
    <2>5. key # NoKey /\ ~new.transient => OnItsWay(new, key)
      BY <2>2, <2>4 DEF OnItsWay
    <2> QED  BY <1>2, <2>2, <2>3, <2>5, CarryingKeeps
  <1>6. CASE FallBack(r)
    <2>1. req' = [req EXCEPT ![r] = [held EXCEPT
             !.stage = "search", !.strategy = GraphFallback, !.locked = TRUE, !.offered = <<>>]]
      BY <1>1, <1>6 DEF FallBack
    <2>2. /\ new.stage = "search" /\ new.strategy = GraphFallback /\ new.locked
          /\ new.paths = held.paths
          /\ new.settled = held.settled /\ new.transient = held.transient /\ new.key = key
          /\ new.aliased = held.aliased /\ new.put = held.put /\ Fields \subseteq DOMAIN new
      BY <1>1, <1>2, <2>1 DEF Fields
    <2>3. Carries(r, new)
      BY <1>1, <1>2, <1>3, <2>1, <2>2 DEF Carries, Working
    <2>4. ASSUME key # NoKey, ~new.transient PROVE OnItsWay(new, key)
      <3>1. Current(key, new) => Current(key, held)
        BY <2>2 DEF Current
      <3>2. Visible(r) = <<>>
        BY <1>6 DEF FallBack
      <3> QED  BY <1>3, <1>4, <2>2, <2>4, <3>1, <3>2 DEF OnItsWay
    <2> QED  BY <1>2, <2>2, <2>3, <2>4, CarryingKeeps
  <1> QED  BY <1>5, <1>6

-----------------------------------------------------------------------------
(* What is stored.                                                         *)

\* A request that ends, or that goes on without its key.
LEMMA LettingGoKeeps ==
    ASSUME CacheInv, NEW r \in Requests, UNCHANGED <<corpusVars, asked>>, EntriesInv',
           NEW new, req' = [req EXCEPT ![r] = new], Fields \subseteq DOMAIN new,
           new.stage \in {"load", "done"}, new.key = NoKey, new.put = NoPut, new.aliased = NoAliases
    PROVE  CacheInv'
  <1>1. DOMAIN req' = Requests /\ req'[r] = new /\ \A s \in Requests \ {r} : req'[s] = req[s]
    BY DEF CacheInv
  <1>2. PICK ask : ask = asked[r]
    OBVIOUS
  <1>3. Carried(new, ask)
    BY DEF Carried, Fields, Grown, NoAliases
  <1> QED  BY <1>1, <1>2, <1>3, RequestKeepsCache

LEMMA EndKeepsCache ==
    ASSUME CacheInv, NEW r \in Requests, UNCHANGED <<corpusVars, asked>>, EntriesInv',
           NEW reply, End(r, reply)
    PROVE  CacheInv'
  <1>1. PICK new : new = Resting("done", reply)
    OBVIOUS
  <1>2. /\ Fields \subseteq DOMAIN new /\ new.stage = "done" /\ new.key = NoKey /\ new.put = NoPut
        /\ new.aliased = NoAliases
    BY <1>1 DEF Resting, Fields
  <1>3. req' = [req EXCEPT ![r] = new]
    BY <1>1 DEF End
  <1> QED  BY <1>2, <1>3, LettingGoKeeps

LEMMA CommitKeepsEntries ==
    ASSUME CacheInv, NEW r \in Requests, UNCHANGED corpusVars, CommitPut(r) PROVE EntriesInv'
  <1>1. CorpusShape /\ CorpusShape'
    BY ShapeUnchanged DEF CacheInv
  <1>2. CASE req[r].put = NoPut
    BY <1>1, <1>2, EntriesStay DEF CommitPut
  <1>3. CASE req[r].put # NoPut
    <2>1. PICK key, result : key = req[r].put.key /\ result = req[r].put.result
      OBVIOUS
    <2>2. Past(key) /\ RightFor(key, result)
      BY <1>3, <2>1 DEF CacheInv, Carried
    <2>3. entries' = Stored(key, result)
      BY <1>3, <2>1 DEF CommitPut
    <2>4. ASSUME NEW k \in DOMAIN entries', NEW stored, stored = entries'[k]
          PROVE  Past(k)' /\ RightFor(k, stored)'
      <3>1. CASE k = key
        BY <1>1, <2>2, <2>3, <2>4, <3>1, RightStays, CorpusMoves DEF Stored
      <3>2. CASE k # key
        <4>1. k \in DOMAIN entries /\ stored = entries[k]
          BY <2>3, <2>4, <3>2 DEF Stored
        <4>2. Past(k) /\ RightFor(k, stored)
          BY <4>1 DEF CacheInv, EntriesInv
        <4> QED  BY <1>1, <4>2, RightStays, CorpusMoves
      <3> QED  BY <3>1, <3>2
    <2> QED  BY <2>4 DEF EntriesInv
  <1> QED  BY <1>2, <1>3

\* An entry that expires is what it was.
LEMMA ExpiryKeepsEntries == ASSUME CacheInv, ExpireEntry PROVE EntriesInv'
  <1>1. PICK key \in DOMAIN entries : entries' = [entries EXCEPT ![key].fresh = FALSE]
    BY DEF ExpireEntry
  <1>2. UNCHANGED corpusVars /\ CorpusShape /\ CorpusShape'
    BY ShapeUnchanged DEF ExpireEntry, CacheInv
  <1>3. ASSUME NEW k \in DOMAIN entries', NEW later, later = entries'[k]
        PROVE  Past(k)' /\ RightFor(k, later)'
    <2>1. k \in DOMAIN entries
      BY <1>1
    <2>2. PICK result : result = entries[k]
      OBVIOUS
    <2>3. Past(k) /\ RightFor(k, result)
      BY <2>1, <2>2 DEF CacheInv, EntriesInv
    <2>4. later = result \/ later = [result EXCEPT !.fresh = FALSE]
      BY <1>1, <1>3, <2>1, <2>2
    <2>5. /\ later.items = result.items /\ later.paths = result.paths
          /\ later.settled = result.settled /\ later.aliased = result.aliased
          /\ {"items", "paths", "settled", "aliased"} \subseteq DOMAIN later
      BY <2>3, <2>4 DEF RightFor
    <2>6. RightFor(k, later)
      BY <2>3, <2>5 DEF RightFor, Current
    <2> QED  BY <1>2, <2>3, <2>6, RightStays, CorpusMoves
  <1> QED  BY <1>3 DEF EntriesInv

\* A direct search, or the one a graph search falls back to, is ranked.
LEMMA CheckDirectKeepsCache ==
    ASSUME CacheInv, NEW r \in Requests, CheckDirect(r) PROVE CacheInv'
  <1>1. PICK held, new, key : held = req[r] /\ new = req'[r] /\ key = req[r].key
    OBVIOUS
  <1>2. DOMAIN req = Requests /\ Fields \subseteq DOMAIN held /\ Grown(held.aliased)
    BY <1>1, Holding
  <1>3. /\ UNCHANGED <<corpusVars, asked, entries>> /\ held.stage = "check"
        /\ held.strategy \notin GraphStrategies
    BY <1>1 DEF CheckDirect, ByGraph, cacheVars, askVars, inputVars
  <1>4. CASE Refuse(r, "error")
    <2>1. EntriesInv'
      BY <1>3, EntriesStay, ShapeUnchanged DEF CacheInv
    <2> QED  BY <1>3, <1>4, <2>1, EndKeepsCache DEF Refuse
  <1>5. CASE ~Refuse(r, "error")
    <2>1. PICK items, seen :
             /\ items = DirectItems(asked[r].query, held.strategy,
                                    Checked(asked[r].query, held.strategy, held.offered, Scope(r)))
             /\ req' = [req EXCEPT ![r] = [held EXCEPT
                  !.stage = "store", !.items = items, !.seen = seen, !.offered = <<>>]]
      <3>1. PICK attempt : attempt = Attempt(r)
        OBVIOUS
      <3>2. /\ attempt.strategy = held.strategy
            /\ attempt.cands = Checked(asked[r].query, held.strategy, held.offered, Scope(r))
        BY <1>1, <3>1 DEF Attempt
      <3>3. PICK items, seen :
               /\ items = DirectItems(asked[r].query, attempt.strategy, attempt.cands)
               /\ req' = [req EXCEPT ![r] = [held EXCEPT
                    !.stage = "store", !.items = items, !.seen = seen, !.offered = <<>>]]
        BY <1>1, <1>5, <3>1 DEF CheckDirect
      <3> QED  BY <3>2, <3>3
    <2>2. /\ new.stage = "store" /\ new.items = items /\ new.paths = held.paths
          /\ new.settled = held.settled /\ new.transient = held.transient /\ new.key = key
          /\ new.aliased = held.aliased /\ new.put = held.put /\ Fields \subseteq DOMAIN new
      BY <1>1, <1>2, <2>1 DEF Fields
    <2>3. Carries(r, new)
      BY <1>1, <1>2, <1>3, <2>1, <2>2 DEF Carries, Working
    <2>4. ASSUME key # NoKey, ~new.transient, Current(key, new)
          PROVE  [items |-> items, paths |-> held.paths] = ResultNow(key)
      <3>1. /\ OnItsWay(held, key) /\ key.query = asked[r].query /\ key.filter = asked[r].filter
            /\ Current(key, held)
        BY <1>1, <2>2, <2>4, Holding DEF Current
      <3>2. held.offered = OfferedNow(key, held.strategy) /\ held.paths = {}
        BY <1>3, <3>1 DEF OnItsWay
      <3>3. Scope(r) = Served(key.filter)
        BY <3>1 DEF Scope, Served
      <3>4. [items |-> items, paths |-> held.paths] = DirectNow(key, held.strategy)
        BY <2>1, <3>1, <3>2, <3>3 DEF DirectNow, ItemsNow
      <3>5. CASE held.locked
        <4>1. /\ held.strategy = GraphFallback /\ key.strategy \in GraphStrategies
              /\ VisibleNow(key) = <<>>
          BY <1>3, <3>1, <3>5 DEF OnItsWay
        <4> QED  BY <3>4, <4>1 DEF ResultNow
      <3>6. CASE ~held.locked
        <4>1. held.strategy = key.strategy
          BY <1>3, <3>1, <3>6 DEF OnItsWay
        <4> QED  BY <1>3, <3>4, <4>1 DEF ResultNow
      <3> QED  BY <3>5, <3>6
    <2>5. key # NoKey /\ ~new.transient => OnItsWay(new, key)
      BY <2>2, <2>4 DEF OnItsWay
    <2> QED  BY <1>2, <2>2, <2>3, <2>5, CarryingKeeps
  <1> QED  BY <1>4, <1>5

LEMMA StoreKeepsCache ==
    ASSUME CacheInv, NEW r \in Requests, Store(r) PROVE CacheInv'
  <1>1. PICK held, new, key, ask : held = req[r] /\ new = req'[r] /\ key = req[r].key /\ ask = asked[r]
    OBVIOUS
  <1>2. DOMAIN req = Requests /\ Fields \subseteq DOMAIN held /\ Grown(held.aliased) /\ Carried(held, ask)
    BY <1>1, Holding DEF CacheInv
  <1>3. UNCHANGED <<corpusVars, asked, entries>> /\ held.stage = "store" /\ EntriesInv'
    BY <1>1, EntriesStay, ShapeUnchanged DEF Store, CacheInv, cacheVars, askVars, inputVars
  <1>4. PICK put : /\ put = IF WillPut(r) THEN [key |-> key, result |-> Payload(r)] ELSE NoPut
                   /\ req' = [req EXCEPT ![r] = [held EXCEPT !.stage = "answer", !.put = put]]
    <2>1. req' = [req EXCEPT ![r].stage = "answer",
             ![r].put = IF WillPut(r) THEN [key |-> key, result |-> Payload(r)] ELSE NoPut]
      BY <1>1 DEF Store
    <2>2. PICK put : put = IF WillPut(r) THEN [key |-> key, result |-> Payload(r)] ELSE NoPut
      OBVIOUS
    <2>3. req' = [req EXCEPT ![r].stage = "answer", ![r].put = put]
      BY <2>1, <2>2
    <2> QED  BY <1>1, <2>2, <2>3
  <1>5. /\ new.stage = "answer" /\ new.put = put /\ new.key = key /\ new.aliased = held.aliased
        /\ new.transient = held.transient /\ Fields \subseteq DOMAIN new
        /\ DOMAIN req' = Requests /\ \A s \in Requests \ {r} : req'[s] = req[s]
    BY <1>1, <1>2, <1>4 DEF Fields
  <1>6. ASSUME put # NoPut PROVE key # NoKey /\ put.key = key /\ RightFor(key, put.result)
    <2>1. WillPut(r) /\ put = [key |-> key, result |-> Payload(r)] /\ key # NoKey /\ ~held.transient
      BY <1>1, <1>4, <1>6 DEF WillPut
    <2>2. PICK result : result = Payload(r)
      OBVIOUS
    <2>3. /\ result.items = held.items /\ result.paths = held.paths
          /\ result.settled = held.settled /\ result.aliased = held.aliased
          /\ {"items", "paths", "settled", "aliased"} \subseteq DOMAIN result
      BY <1>1, <2>2 DEF Payload
    <2>4. Current(key, result) => Current(key, held)
      BY <2>3 DEF Current
    <2>5. OnItsWay(held, key)
      BY <1>1, <2>1, Holding
    <2>6. RightFor(key, result)
      BY <1>2, <1>3, <2>3, <2>4, <2>5 DEF RightFor, OnItsWay
    <2> QED  BY <2>1, <2>2, <2>6
  <1>7. Carried(new, ask)
    BY <1>1, <1>2, <1>5, <1>6 DEF Carried, OnItsWay
  <1> QED  BY <1>1, <1>3, <1>5, <1>7, RequestKeepsCache

\* A store that fails, or gives way to another one, leaves nothing to put.
LEMMA LostStoreKeepsCache ==
    ASSUME CacheInv, NEW r \in Requests, UNCHANGED <<corpusVars, asked, entries>>,
           req[r].stage = "store", req' = [req EXCEPT ![r].stage = "answer"]
    PROVE  CacheInv'
  <1>1. PICK held, new : held = req[r] /\ new = req'[r]
    OBVIOUS
  <1>2. DOMAIN req = Requests /\ Fields \subseteq DOMAIN held /\ Grown(held.aliased)
    BY <1>1, Holding
  <1>3. Carries(r, new) /\ new.stage = "answer" /\ new.aliased = held.aliased
    BY <1>1, <1>2 DEF Carries, Fields, Working
  <1>4. OnItsWay(new, new.key)
    BY <1>3 DEF OnItsWay
  <1> QED  BY <1>2, <1>3, <1>4, CarryingKeeps

-----------------------------------------------------------------------------
(* The first step of a request, and its last.                              *)

\* The key of now is past from now on.
LEMMA KeyOfNow ==
    ASSUME CorpusShape, NEW kind, NEW q, NEW strategy, NEW filter \in SUBSET Docs,
           NEW key, key = CacheKey(kind, q, strategy, filter)
    PROVE  Past(key) /\ key.query = q /\ key.strategy = strategy /\ key.filter = filter
  <1>1. /\ key.query = q /\ key.strategy = strategy /\ key.filter = filter
        /\ key.fingerprint = Fingerprint(filter) /\ key.graph = GraphFingerprint(strategy, filter)
    BY DEF CacheKey
  <1>2. GraphPast(key)
    <2>1. ASSUME NEW row \in GraphFingerprint(strategy, filter)
          PROVE  row[1] \in Chunks /\ row[2] \in 0..builds[row[1]]
      <3>1. PICK c \in InScope(filter, ActiveChunks) : row = <<c, builds[c]>>
        BY <2>1 DEF GraphFingerprint
      <3>2. c \in Chunks /\ builds[c] \in Nat
        BY <3>1 DEF InScope, ActiveChunks, CorpusShape
      <3> QED  BY <3>1, <3>2
    <2> QED  BY <1>1, <2>1 DEF GraphPast
  <1>3. CASE filter = {}
    BY <1>1, <1>2, <1>3 DEF Past, DocumentsPast, Fingerprint, CorpusShape
  <1>4. CASE filter # {}
    <2>1. key.fingerprint = {<<active[d], stamp[d]>> : d \in {e \in filter : active[e] # Archived}}
      BY <1>1, <1>4 DEF Fingerprint
    <2>2. ASSUME NEW d \in filter, active[d] # Archived
          PROVE  \E row \in key.fingerprint : DocOf[row[1]] = d /\ row[2] \in 0..stamp[d]
      <3>1. DocOf[active[d]] = d /\ stamp[d] \in 0..stamp[d]
        BY <2>2 DEF CorpusShape
      <3>2. <<active[d], stamp[d]>> \in key.fingerprint
        BY <2>1, <2>2
      <3> QED  BY <3>1, <3>2
    <2> QED  BY <1>1, <1>2, <1>4, <2>2 DEF Past, DocumentsPast
  <1> QED  BY <1>1, <1>3, <1>4

LEMMA BeginKeepsCache ==
    ASSUME CacheInv, NEW r \in Requests, req[r].stage = "idle", CreateRun(r)
    PROVE  CacheInv'
  <1>1. PICK held, new, ask : held = req[r] /\ new = req'[r] /\ ask = asked[r]
    OBVIOUS
  <1>2. /\ DOMAIN req = Requests /\ Fields \subseteq DOMAIN held /\ Grown(held.aliased)
        /\ held.put = NoPut /\ held.paths = {} /\ ~held.locked
    BY <1>1 DEF CacheInv, Carried
  <1>3. UNCHANGED <<corpusVars, asked, entries>> /\ EntriesInv'
    BY EntriesStay, ShapeUnchanged DEF CreateRun, CacheInv, cacheVars
  <1>4. PICK key : key = IF UsesCache(r) THEN CacheKey(Namespace(r), ask.query, ask.strategy, ask.filter)
                         ELSE NoKey
    OBVIOUS
  <1>5. PICK stage : stage = IF UsesCache(r) THEN "lookup" ELSE IF ByTools(r) THEN "plan" ELSE "search"
    OBVIOUS
  <1>6. PICK strategy \in StartStrategies(r) :
           req' = [req EXCEPT ![r].stage = stage, ![r].key = key, ![r].strategy = strategy]
    BY <1>1, <1>4, <1>5 DEF CreateRun
  <1>7. /\ DOMAIN req' = Requests /\ \A s \in Requests \ {r} : req'[s] = req[s]
        /\ Fields \subseteq DOMAIN new /\ new.stage = stage /\ new.key = key /\ new.strategy = strategy
        /\ new.put = NoPut /\ new.paths = {} /\ ~new.locked /\ new.aliased = held.aliased
    BY <1>1, <1>2, <1>6 DEF Fields
  <1>8. ask.filter \in SUBSET Docs
    BY <1>1, FiltersAssumption DEF CacheInv, AskedAlike, Requests
  <1>9. ASSUME key # NoKey
        PROVE  /\ Cacheable(ask.strategy) /\ stage = "lookup" /\ strategy = ask.strategy /\ Past(key)
               /\ key.query = ask.query /\ key.strategy = ask.strategy /\ key.filter = ask.filter
    <2>1. UsesCache(r)
      BY <1>4, <1>9
    <2>2. Cacheable(ask.strategy) /\ stage = "lookup"
      BY <1>1, <1>5, <2>1 DEF UsesCache
    <2>3. strategy = ask.strategy
      BY <1>1, <1>6, <2>2 DEF Cacheable, StartStrategies, GraphStrategies
    <2>4. key = CacheKey(Namespace(r), ask.query, ask.strategy, ask.filter)
      BY <1>4, <2>1
    <2> QED  BY <1>8, <2>2, <2>3, <2>4, KeyOfNow DEF CacheInv
  <1>10. Carried(new, ask)
    <2>1. stage \in {"lookup", "plan", "search"}
      BY <1>5
    <2>2. key # NoKey => OnItsWay(new, key)
      BY <1>7, <1>9 DEF OnItsWay
    <2> QED  BY <1>2, <1>7, <1>9, <2>1, <2>2 DEF Carried
  <1> QED  BY <1>1, <1>3, <1>7, <1>10, RequestKeepsCache

LEMMA DuplicatesKeepCache ==
    ASSUME CacheInv, NEW r \in Requests, Duplicate(r) \/ ResolveDuplicate(r) PROVE CacheInv'
  <1>1. PICK held, new, ask : held = req[r] /\ new = req'[r] /\ ask = asked[r]
    OBVIOUS
  <1>2. /\ UNCHANGED <<corpusVars, asked, entries>> /\ EntriesInv'
        /\ held.stage \in {"idle", "duplicate"}
    BY <1>1, EntriesStay, ShapeUnchanged
       DEF Duplicate, ResolveDuplicate, CacheInv, cacheVars, askVars, inputVars
  <1>3. /\ DOMAIN req = Requests /\ Fields \subseteq DOMAIN held /\ Grown(held.aliased)
        /\ held.key = NoKey /\ held.put = NoPut
    BY <1>1, <1>2 DEF CacheInv, Carried
  <1>4. CASE req' = [req EXCEPT ![r].stage = "duplicate"]
    <2>1. /\ DOMAIN req' = Requests /\ \A s \in Requests \ {r} : req'[s] = req[s]
          /\ Fields \subseteq DOMAIN new /\ new.stage = "duplicate"
          /\ new.key = NoKey /\ new.put = NoPut /\ new.aliased = held.aliased
      BY <1>1, <1>3, <1>4 DEF Fields
    <2>2. Carried(new, ask)
      BY <1>3, <2>1 DEF Carried
    <2> QED  BY <1>1, <1>2, <2>1, <2>2, RequestKeepsCache
  <1>5. ASSUME NEW s \in Requests, End(r, Classify(r, s)) PROVE CacheInv'
    BY <1>2, <1>5, EndKeepsCache
  <1> QED  BY <1>4, <1>5 DEF Duplicate, ResolveDuplicate, RunsOfMessage

\* A request ends, and the cache stays as it is.
LEMMA RefusalsKeepCache ==
    ASSUME CacheInv, NEW r \in Requests, UNCHANGED <<cacheVars, asked>>,
           NEW code, Refuse(r, code)
    PROVE  CacheInv'
  <1>1. UNCHANGED <<corpusVars, asked, entries>>
    BY DEF cacheVars
  <1> QED  BY <1>1, EntriesStay, ShapeUnchanged, EndKeepsCache DEF Refuse, CacheInv

\* What a transaction put becomes an entry when it commits.
LEMMA CommitsKeepCache ==
    ASSUME CacheInv, NEW r \in Requests, UNCHANGED <<corpusVars, asked>>, CommitPut(r),
           NEW reply, End(r, reply)
    PROVE  CacheInv'
  BY CommitKeepsEntries, EndKeepsCache

LEMMA AnswersKeepCache ==
    ASSUME CacheInv, NEW r \in Requests, EndSearch(r) \/ NoContext(r) \/ WriteAnswer(r)
    PROVE  CacheInv'
  <1>1. UNCHANGED <<corpusVars, asked>>
    BY DEF EndSearch, NoContext, WriteAnswer, FailCommitted, inputVars
  <1>2. CommitPut(r) /\ \E reply : End(r, reply)
    BY DEF EndSearch, NoContext, WriteAnswer, FailCommitted, Refuse
  <1> QED  BY <1>1, <1>2, CommitsKeepCache

LEMMA FinishEvaluatedKeepsCache ==
    ASSUME CacheInv, NEW r \in Requests, FinishEvaluatedSearch(r) PROVE CacheInv'
  <1>1. UNCHANGED <<corpusVars, asked>> /\ CommitPut(r) /\ EntriesInv'
    BY CommitKeepsEntries DEF FinishEvaluatedSearch, inputVars
  <1>2. CASE Refuse(r, "measured")
    BY <1>1, <1>2, CommitsKeepCache DEF Refuse
  <1>3. CASE ~Refuse(r, "measured")
    <2>1. PICK new : /\ new = [Resting("load", NoAnswer) EXCEPT
                                 !.items = req[r].items, !.seen = req[r].seen, !.lost = req[r].lost]
                     /\ req' = [req EXCEPT ![r] = new]
      BY <1>3 DEF FinishEvaluatedSearch
    <2>2. /\ Fields \subseteq DOMAIN new /\ new.stage = "load" /\ new.key = NoKey /\ new.put = NoPut
          /\ new.aliased = NoAliases
      BY <2>1 DEF Resting, Fields
    <2> QED  BY <1>1, <2>1, <2>2, LettingGoKeeps
  <1> QED  BY <1>2, <1>3

LEMMA VictimKeepsCache ==
    ASSUME CacheInv, NEW p \in Requests \cup {Deletion}, DeadlockVictim(p) PROVE CacheInv'
  <1>1. asked' = asked
    BY DEF DeadlockVictim, inputVars
  <1>2. Deletion \notin Requests
    BY DeletionAssumption DEF CacheInv, AskedAlike, Requests
  <1>3. CASE p = Deletion
    <2>1. UNCHANGED <<corpusVars, asked, req>> /\ entries' = entries
      BY <1>1, <1>3 DEF DeadlockVictim, cacheVars
    <2> QED  BY <2>1, EntriesStay, ShapeUnchanged, WorldKeepsCache DEF CacheInv
  <1>4. CASE p # Deletion
    <2>1. p \in Requests
      BY <1>4
    <2>2. UNCHANGED cacheVars
      BY <1>4 DEF DeadlockVictim, FailRolledBack
    <2>3. CASE req[p].stage = "store" /\ req' = [req EXCEPT ![p].stage = "answer"]
      BY <1>1, <2>1, <2>2, <2>3, LostStoreKeepsCache DEF cacheVars
    <2>4. CASE Refuse(p, "error")
      BY <1>1, <2>1, <2>2, <2>4, RefusalsKeepCache
    <2> QED  BY <1>4, <2>3, <2>4 DEF DeadlockVictim, FailRolledBack
  <1> QED  BY <1>3, <1>4

LEMMA StepKeepsCache ==
    ASSUME CacheInv, NEW r \in Requests, Step(r) PROVE CacheInv'
  <1>1. CASE Unavailable(r) \/ Crash(r)
    <2>1. UNCHANGED <<cacheVars, asked>> /\ \E code : Refuse(r, code)
      BY <1>1 DEF Unavailable, Crash, askVars, inputVars
    <2> QED  BY <2>1, RefusalsKeepCache
  <1>2. CASE Duplicate(r) \/ ResolveDuplicate(r)
    BY <1>2, DuplicatesKeepCache
  <1>3. CASE BeginSearch(r) \/ BeginAsk(r) \/ BeginGraphSearch(r) \/ BeginGraphAsk(r)
    BY <1>3, BeginKeepsCache DEF BeginSearch, BeginAsk, BeginGraphSearch, BeginGraphAsk
  <1>4. CASE Lookup(r) \/ LookupFails(r) \/ Hydrate(r)
    BY <1>4, LookupKeepsCache
  <1>5. CASE Search(r)
    BY <1>5, SearchKeepsCache
  <1>6. CASE RetrievalFails(r) \/ AskWithoutRun(r)
    <2>1. UNCHANGED <<cacheVars, asked>> /\ Refuse(r, "error")
      BY <1>6 DEF RetrievalFails, AskWithoutRun, FailRolledBack, inputVars
    <2> QED  BY <2>1, RefusalsKeepCache
  <1>7. CASE CheckDirect(r)
    BY <1>7, CheckDirectKeepsCache
  <1>8. CASE \/ PlanCalls(r) \/ CallSearch(r) \/ CallOther(r) \/ TimesOut(r) \/ CheckTool(r)
             \/ CheckAgentic(r) \/ GraphWithoutRun(r)
             \/ FinishLlmTools(r) \/ FinishLangChain(r) \/ FinishLangGraph(r)
    <2>1. CASE Refuse(r, "error") /\ (CheckAgentic(r) \/ FinishLoop(r) \/ GraphWithoutRun(r))
      <3>1. UNCHANGED <<cacheVars, asked>>
        BY <2>1 DEF CheckAgentic, FinishLoop, GraphWithoutRun, askVars, inputVars
      <3> QED  BY <2>1, <3>1, RefusalsKeepCache
    <2>2. GraphWithoutRun(r) => Refuse(r, "error")
      BY DEF GraphWithoutRun
    <2> QED  BY <1>8, <2>1, <2>2, LoopsCarry DEF FinishLlmTools, FinishLangChain, FinishLangGraph
  <1>9. CASE \/ SearchDatabaseGraph(r) \/ SearchNeo4j(r) \/ Neo4jFails(r) \/ CheckProjection(r)
             \/ CheckGraph(r) \/ FallBack(r)
    BY <1>9, DatabaseGraphKeepsCache, Neo4jKeepsCache, DetoursKeepCache, ProjectionKeepsCache,
       GraphResultsKeepCache
  <1>10. CASE Store(r)
    BY <1>10, StoreKeepsCache
  <1>11. CASE StoreFails(r)
    BY <1>11, LostStoreKeepsCache DEF StoreFails, cacheVars, askVars, inputVars
  <1>12. CASE \/ FinishSearch(r) \/ FinishGraphSearch(r)
              \/ NoContextFound(r) \/ NoGraphContextFound(r) \/ Answer(r) \/ GraphAnswer(r)
    BY <1>12, AnswersKeepCache DEF FinishSearch, FinishGraphSearch, NoContextFound,
                                   NoGraphContextFound, Answer, GraphAnswer
  <1> QED  BY <1>1, <1>2, <1>3, <1>4, <1>5, <1>6, <1>7, <1>8, <1>9, <1>10, <1>11, <1>12 DEF Step

LEMMA EvaluationStepKeepsCache ==
    ASSUME CacheInv, NEW r \in Requests, EvaluationStep(r) PROVE CacheInv'
  <1>1. CASE FinishEvaluatedSearch(r)
    BY <1>1, FinishEvaluatedKeepsCache
  <1>2. CASE BeginLlmTools(r) \/ BeginLangChain(r) \/ BeginLangGraph(r)
    BY <1>2, BeginKeepsCache DEF BeginLlmTools, BeginLangChain, BeginLangGraph, BeginOrchestrated
  <1>3. CASE EvaluatedNothing(r) \/ GraphFoundNothing(r)
    <2>1. UNCHANGED <<cacheVars, asked>> /\ \E code : Refuse(r, code)
      BY <1>3 DEF EvaluatedNothing, GraphFoundNothing, MarkNothingFound, inputVars
    <2> QED  BY <2>1, RefusalsKeepCache
  <1>4. CASE AnswerEvaluated(r) \/ AnswerOverGraph(r)
    <2>1. UNCHANGED <<cacheVars, asked>> /\ \E code : Refuse(r, code)
      BY <1>4 DEF AnswerEvaluated, AnswerOverGraph, AnswerLoaded, MarkAnswered, MarkLatestFailed, inputVars
    <2> QED  BY <2>1, RefusalsKeepCache
  <1>5. CASE LlmToolsFoundNothing(r) \/ LangChainFoundNothing(r) \/ LangGraphFoundNothing(r)
    <2>1. UNCHANGED <<cacheVars, asked>> /\ \E code : Refuse(r, code)
      BY <1>5 DEF LlmToolsFoundNothing, LangChainFoundNothing, LangGraphFoundNothing,
                  ToolsFoundNothing, inputVars
    <2> QED  BY <2>1, RefusalsKeepCache
  <1>6. CASE AnswerLlmTools(r) \/ AnswerLangChain(r) \/ AnswerLangGraph(r)
    <2>1. UNCHANGED <<cacheVars, asked>> /\ \E code : Refuse(r, code)
      BY <1>6 DEF AnswerLlmTools, AnswerLangChain, AnswerLangGraph, AnswerTools, inputVars
    <2> QED  BY <2>1, RefusalsKeepCache
  <1>7. CASE RaiseUnmarked(r)
    <2>1. UNCHANGED <<cacheVars, asked>> /\ Refuse(r, "raised")
      BY <1>7 DEF RaiseUnmarked, askVars, inputVars
    <2> QED  BY <2>1, RefusalsKeepCache
  <1> QED  BY <1>1, <1>2, <1>3, <1>4, <1>5, <1>6, <1>7 DEF EvaluationStep

LEMMA CacheStep ==
    ASSUME CacheInv, [EvaluationNext]_vars PROVE CacheInv'
  <1>1. ASSUME NEW r \in Requests, Step(r) \/ EvaluationStep(r) PROVE CacheInv'
    BY <1>1, StepKeepsCache, EvaluationStepKeepsCache
  <1>2. CASE CorpusStep /\ entries' = entries /\ UNCHANGED <<askVars, req>>
    BY <1>2, EntriesStay, ShapeStays, WorldKeepsCache DEF askVars, inputVars, CacheInv
  <1>3. CASE ExpireEntry /\ UNCHANGED <<askVars, req>>
    BY <1>3, ExpiryKeepsEntries, WorldKeepsCache DEF ExpireEntry, askVars, inputVars
  <1>4. CASE ArchiveSession \/ BeginDelete \/ FinishDelete \/ Done \/ UNCHANGED vars
    <2>1. UNCHANGED <<cacheVars, asked, req>>
      BY <1>4 DEF ArchiveSession, BeginDelete, FinishDelete, Done, vars, askVars, inputVars
    <2> QED  BY <2>1, EntriesStay, ShapeUnchanged, WorldKeepsCache DEF cacheVars, CacheInv
  <1>5. ASSUME NEW p \in Requests \cup {Deletion}, DeadlockVictim(p) PROVE CacheInv'
    BY <1>5, VictimKeepsCache
  <1> QED  BY <1>1, <1>2, <1>3, <1>4, <1>5 DEF EvaluationNext, Next

\* When the indexes have caught up, a retrieval of now returns what is right.
LEMMA EntriesAreRight ==
    ASSUME CacheInv, NEW key \in DOMAIN entries PROVE EntryMatches(key)
  <1> DEFINE q == key.query
             strategy == key.strategy
             filter == key.filter
  <1> SUFFICES ASSUME entries[key].settled, entries[key].aliased = aliased, Settled(strategy, filter),
                      Matches(key)
               PROVE  [items |-> entries[key].items, paths |-> entries[key].paths]
                        \in FreshResults(q, strategy, filter)
    BY DEF EntryMatches, Matches, DocumentsMatch, GraphMatches
  <1>1. [items |-> entries[key].items, paths |-> entries[key].paths] = ResultNow(key)
    BY DEF CacheInv, EntriesInv, RightFor, Current
  <1>2. InScope(filter, indexed) = Served(filter)
    BY DEF Settled, Served
  <1>3. ASSUME NEW other PROVE DirectResult(q, other, filter) = DirectNow(key, other)
    BY <1>2 DEF DirectResult, DirectNow, FreshItems, ItemsNow, OfferedNow, Served
  <1>4. CASE strategy \notin GraphStrategies
    <2>1. DirectResult(q, strategy, filter) = DirectNow(key, strategy)
      BY <1>3
    <2> QED  BY <1>1, <1>4, <2>1 DEF FreshResults, ResultNow
  <1>5. CASE strategy \in GraphStrategies
    <2>1. FreshCandidates(q, strategy, filter) = CandidatesNow(key)
      <3>1. CASE strategy = "graph_postgres"
        BY <3>1 DEF FreshCandidates, CandidatesNow
      <3>2. CASE strategy = "graph_neo4j"
        <4>1. Neo4jView(filter) = ProjectedView(filter)
          BY <3>2 DEF Settled, Neo4jView, DatabaseView, ProjectedView, Drawn
        <4> QED  BY <3>2, <4>1 DEF FreshCandidates, CandidatesNow, StartsNow, PathsNow, Served
      <3> QED  BY <1>5, <3>1, <3>2 DEF GraphStrategies
    <2>2. FreshVisible(q, strategy, filter) = VisibleNow(key)
      BY <2>1 DEF FreshVisible, VisibleNow, Served
    <2>3. DirectResult(q, GraphFallback, filter) = DirectNow(key, GraphFallback)
      BY <1>3
    <2> QED  BY <1>1, <1>5, <2>2, <2>3 DEF FreshResults, ResultNow
  <1> QED  BY <1>4, <1>5

\* Whatever is activated, archived, mirrored, built or projected between the search and
\* the commit that puts its result, and however requests overlap, fall back, fail, crash
\* and wait for each other: an entry a request would find (rag/retrieval_cache.py) holds
\* what a retrieval of now would return, as long as the vector index and Neo4j had caught
\* up on both occasions and no entity got an alias in between.
THEOREM CachedResultsMatch == EvaluationSpec => []CacheMatchesCorpus
  <1>1. Init => CacheInv
    BY CacheInvInit
  <1>2. CacheInv /\ [EvaluationNext]_vars => CacheInv'
    BY CacheStep
  <1>3. CacheInv => CacheMatchesCorpus
    BY EntriesAreRight DEF CacheMatchesCorpus
  <1> QED  BY <1>1, <1>2, <1>3, PTL DEF EvaluationSpec

-----------------------------------------------------------------------------
=============================================================================
