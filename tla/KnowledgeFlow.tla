---------------------------- MODULE KnowledgeFlow ----------------------------
(***************************************************************************)
(* What solvers find out, on its way to the solvers of other challenges:    *)
(* the trace files and their incremental reader (tracing.py,                 *)
(* coordinator_loop.py), working memory, knowledge store, strategy, policy   *)
(* and advisor (control/), and the actions that carry it on.  A swarm has    *)
(* one solver here; the quota fallback gives it another with a trace of its  *)
(* own, and a challenge that is listed again gets a second swarm.            *)
(*                                                                           *)
(* A trace line is two halves, the second with the newline, so that a reader *)
(* can meet it half-written; what it says is the event it stands for.        *)
(***************************************************************************)
EXTENDS Naturals, Sequences, FiniteSets

CONSTANTS
  Challenges,
  Category,        \* [Challenges -> category]
  Platform,        \* the platform of every challenge
  Rules,           \* texts of findings "category rule: ..." or "exploit pattern: ..."
  PlatformRules,   \* texts of findings "platform rule: ..."
  Noise,           \* texts that say nothing of use
  Writes,          \* [Challenges -> the texts its solver can come upon]
  Capacity,        \* max_concurrent_challenges
  MaxLines,        \* [Challenges -> bound: lines its solvers write]
  MaxTraces,       \* [Challenges -> bound: trace files of its solvers]
  Emptied          \* bound: challenges whose trace file somebody empties once

Findings == Rules \union PlatformRules
ASSUME FlowAssumption ==
  /\ Capacity \in Nat /\ MaxLines \in [Challenges -> Nat] /\ MaxTraces \in [Challenges -> Nat]
  /\ Emptied \subseteq Challenges
  /\ Writes \in [Challenges -> SUBSET (Findings \union Noise)]

VARIABLES
  run,        \* [Challenges -> its swarm: "absent", "running", "done", "retired"]
  recorded,   \* results: challenges of which one swarm has ended
  traces,     \* [Challenges -> trace files its solvers have opened]
  file,       \* [Challenges -> halves in the trace file of its solver, the latest]
  unsent,     \* [Challenges -> what a failed write left in the file's buffer]
  written,    \* [Challenges -> lines its solvers traced]
  offset,     \* trace_offsets, of that file
  pending,    \* trace_pending_lines, of that file
  memory,     \* [Challenges -> verified findings]
  entries,    \* the knowledge store
  state,      \* runtime_state: [Challenges -> status, applied ids, bump count]
  phase,      \* where the event loop is
  plan,       \* actions still to be executed
  received,   \* history: [Challenges -> ids broadcast to it, in order]
  truncated,  \* history: challenges whose trace file was emptied
  earlier,    \* history: [Challenges -> memory when its latest trace was opened]
  unread      \* history: challenges of which a trace was given up before its end was read

swarmVars == <<run, recorded>>
latestVars == <<file, unsent, offset, pending, traces, earlier>>
traceVars == <<latestVars, written, truncated>>
knowledgeVars == <<memory, entries>>
loopVars == <<state, phase, plan>>
historyVars == <<received, unread>>
flowVars == <<swarmVars, traceVars, knowledgeVars, loopVars, historyVars>>

Halves == [text : Findings \union Noise, ends : BOOLEAN]
Scopes == {Category[c] : c \in Challenges} \union {Platform}
Ids == [text : Findings, scope : Scopes]
Entries == [id : Ids, source : Challenges]
Plans == [challenge : Challenges, id : Ids]

FlowTypeOK ==
  /\ run \in [Challenges -> {"absent", "running", "done", "retired"}] /\ recorded \subseteq Challenges
  /\ file \in [Challenges -> Seq(Halves)] /\ pending \in [Challenges -> Seq(Halves)]
  /\ unsent \in [Challenges -> Seq(Halves)]
  /\ written \in [Challenges -> Nat] /\ \A c \in Challenges : written[c] <= MaxLines[c]
  /\ offset \in [Challenges -> Nat] /\ traces \in [Challenges -> Nat]
  /\ memory \in [Challenges -> SUBSET Findings] /\ earlier \in [Challenges -> SUBSET Findings]
  /\ entries \subseteq Entries
  /\ state \in [Challenges -> [status : {"absent", "running", "finished"}, applied : SUBSET Ids]]
  /\ phase \in {"events", "spawning", "policy", "advice", "advised"} /\ plan \subseteq Plans
  /\ received \in [Challenges -> Seq(Ids)] /\ unread \subseteq Challenges
  /\ truncated \subseteq Emptied

Unseen == [status |-> "absent", applied |-> {}]

FlowInit ==
  /\ run = [c \in Challenges |-> "absent"] /\ recorded = {}
  /\ file = [c \in Challenges |-> <<>>] /\ unsent = file /\ pending = file
  /\ written = [c \in Challenges |-> 0] /\ offset = written /\ traces = written
  /\ memory = [c \in Challenges |-> {}] /\ earlier = memory /\ entries = {}
  /\ state = [c \in Challenges |-> Unseen]
  /\ phase = "events" /\ plan = {}
  /\ received = [c \in Challenges |-> <<>>] /\ unread = {}
  /\ truncated = {}

-----------------------------------------------------------------------------
(* The solver's tracer *)

Line(t) == <<[text |-> t, ends |-> FALSE], [text |-> t, ends |-> TRUE]>>

\* Every write is flushed.  On a full disk a part of it stays in the buffer, the
\* exception is swallowed, and the next write sends the rest first.
Trace(c, t) ==
  LET out == unsent[c] \o Line(t) IN
  /\ run[c] = "running" /\ written[c] < MaxLines[c]
  /\ written' = [written EXCEPT ![c] = @ + 1]
  /\ \E k \in 0 .. Len(out) :
       /\ file' = [file EXCEPT ![c] = @ \o SubSeq(out, 1, k)]
       /\ unsent' = [unsent EXCEPT ![c] = SubSeq(out, k + 1, Len(out))]
  /\ UNCHANGED <<swarmVars, offset, pending, traces, earlier, truncated,
                 knowledgeVars, loopVars, historyVars>>

\* Somebody empties the file while the solver goes on appending to it.
EmptyFile(c) ==
  /\ c \in Emptied \ truncated /\ file[c] # <<>>
  /\ file' = [file EXCEPT ![c] = <<>>]
  /\ truncated' = truncated \union {c}
  /\ UNCHANGED <<swarmVars, unsent, written, offset, pending, traces, earlier,
                 knowledgeVars, loopVars, historyVars>>

\* The solver stops, closing its trace, and the swarm's task ends with a result on record.
SwarmEnds(c) ==
  /\ run[c] = "running"
  /\ run' = [run EXCEPT ![c] = "done"] /\ recorded' = recorded \union {c}
  /\ \/ file' = [file EXCEPT ![c] = @ \o unsent[c]]
     \/ UNCHANGED file
  /\ unsent' = [unsent EXCEPT ![c] = <<>>]
  /\ UNCHANGED <<written, offset, pending, traces, earlier, truncated,
                 knowledgeVars, loopVars, historyVars>>

\* A solver is made, and with it a trace file, of which nothing has been read.
NewTrace(c) ==
  /\ traces[c] < MaxTraces[c]
  /\ traces' = [traces EXCEPT ![c] = @ + 1]
  /\ file' = [file EXCEPT ![c] = <<>>] /\ unsent' = [unsent EXCEPT ![c] = <<>>]
  /\ offset' = [offset EXCEPT ![c] = 0] /\ pending' = [pending EXCEPT ![c] = <<>>]
  /\ earlier' = [earlier EXCEPT ![c] = memory[c]]
  /\ UNCHANGED <<written, truncated>>

\* The loop reads the traces of the solvers that the swarms have now: what it has not
\* read of any other, it never reads.
GiveUp(cs) == unread' = unread \union {d \in cs : offset[d] # Len(file[d])}

\* The quota is exhausted, and another solver takes the place of the first.
Fallback(c) ==
  /\ run[c] = "running"
  /\ NewTrace(c) /\ GiveUp({c})
  /\ UNCHANGED <<swarmVars, knowledgeVars, loopVars, received>>

-----------------------------------------------------------------------------
(* _load_incremental_trace_events *)

\* An offset behind the end means another file: from its start, without the rest of
\* the old one.
From(c) == IF offset[c] > Len(file[c]) THEN 0 ELSE offset[c]
Chunk(c) == SubSeq(file[c], From(c) + 1, Len(file[c]))
Before(c) == IF offset[c] > Len(file[c]) THEN <<>> ELSE pending[c]

\* Mutant: a half-written line is dropped.
BufferWithoutPending(c) == Chunk(c)
Buffer(c) == Before(c) \o Chunk(c)

\* A line that is not the two halves of one event is no JSON, and skipped.
LinesIn(b) == {b[i].text : i \in {j \in 2 .. Len(b) :
                 /\ b[j].ends /\ ~b[j - 1].ends /\ b[j].text = b[j - 1].text
                 /\ j > 2 => b[j - 2].ends}}
LastPart(b) == LET ended == {j \in DOMAIN b : b[j].ends}
                   last == CHOOSE j \in ended \union {0} : \A k \in ended : k <= j
               IN SubSeq(b, last + 1, Len(b))

\* apply_trace_events, of a challenge whose swarm is not retired.  Mutants: of a running
\* one; whatever a line says.
RememberedEverything(c) == IF run[c] \in {"running", "done"} THEN memory[c] \union LinesIn(Buffer(c))
                                                             ELSE memory[c]
RememberedRunning(c) == IF run[c] = "running" THEN memory[c] \union (LinesIn(Buffer(c)) \cap Findings)
                                              ELSE memory[c]
Remembered(c) == IF run[c] \in {"running", "done"} THEN memory[c] \union (LinesIn(Buffer(c)) \cap Findings)
                                                   ELSE memory[c]

-----------------------------------------------------------------------------
(* knowledge_store.py *)

\* Where a finding of c applies; two findings of one text and scope are one entry.
IdOf(c, f) == [text |-> f, scope |-> IF f \in PlatformRules THEN Platform ELSE Category[c]]

\* promote_from_memory for every finding of c that is new; the first source stays.
Promotable(c) == {IdOf(c, f) : f \in Remembered(c) \ memory[c]}
Known == {e.id : e \in entries}
NewIds == (UNION {Promotable(c) : c \in Challenges}) \ Known

\* match, best confidence first.  The policy asks without naming the platform, so no
\* platform rule matches it; the advisor's summary names it.
\* Mutants: the applied ids, or the source, are not looked at.
MatchesApplied(store, c, applied, platform) ==
  {e \in store : e.source # c /\ e.id.scope \in {Category[c]} \union platform}
MatchesSource(store, c, applied, platform) ==
  {e \in store : e.id \notin applied /\ e.id.scope \in {Category[c]} \union platform}
Matches(store, c, applied, platform) ==
  {e \in store : /\ e.id \notin applied /\ e.source # c
                 /\ e.id.scope \in {Category[c]} \union platform}
Best(es) == CHOOSE e \in es : TRUE

-----------------------------------------------------------------------------
(* The event loop *)

\* build_runtime_state_snapshot; a result on record makes a challenge finished, whatever a
\* second swarm of it does.
Snapshot(c) == [state[c] EXCEPT !.status = CASE c \in recorded -> "finished"
                                             [] run[c] = "running" -> "running"
                                             [] OTHER -> "absent"]

\* plan_tick: the best match for every running swarm, one a tick.
Broadcasts(snap, store) ==
  {[challenge |-> c, id |-> Best(Matches(store, c, snap[c].applied, {})).id] :
     c \in {d \in Challenges : /\ snap[d].status = "running"
                               /\ Matches(store, d, snap[d].applied, {}) # {}}}

Retire == [c \in Challenges |-> IF run[c] = "done" THEN "retired" ELSE run[c]]

\* _auto_spawn_one for a challenge the poller lists anew, or at the start; do_spawn_swarm
\* first retires what has finished, read or unread.
Spawn(c) ==
  /\ phase = "events" /\ run[c] \in {"absent", "retired"}
  /\ Cardinality({d \in Challenges : run[d] = "running"}) < Capacity
  /\ run' = [Retire EXCEPT ![c] = "running"]
  /\ NewTrace(c) /\ GiveUp({d \in Challenges : run[d] = "done"})
  /\ UNCHANGED <<recorded, knowledgeVars, loopVars, received>>

ReadTraces ==
  /\ memory' = [c \in Challenges |-> Remembered(c)]
  /\ offset' = [c \in Challenges |-> IF run[c] \in {"running", "done"} THEN Len(file[c]) ELSE offset[c]]
  /\ pending' = [c \in Challenges |-> IF run[c] \in {"running", "done"} THEN LastPart(Buffer(c))
                                                                         ELSE pending[c]]
  /\ \E source \in [NewIds -> Challenges] :
       /\ \A i \in NewIds : i \in Promotable(source[i])
       /\ entries' = entries \union {[id |-> i, source |-> source[i]] : i \in NewIds}

\* Everything from the snapshot to the policy's plan, without an await: the plan's spawn,
\* which comes first, finds nothing to retire.
Tick ==
  /\ phase = "events"
  /\ state' = [c \in Challenges |-> Snapshot(c)]
  /\ ReadTraces
  /\ run' = Retire
  /\ plan' = Broadcasts(state', entries')
  /\ phase' = "spawning"
  /\ UNCHANGED <<recorded, file, unsent, written, traces, earlier, truncated, historyVars>>

\* SpawnSwarm of a challenge that no swarm has tried, or none.
PolicySpawn ==
  /\ phase = "spawning"
  /\ phase' = "policy"
  /\ \/ \E c \in Challenges :
          /\ run[c] = "absent"
          /\ Cardinality({d \in Challenges : run[d] \in {"running", "done"}}) < Capacity
          /\ run' = [run EXCEPT ![c] = "running"]
          /\ NewTrace(c)
     \/ UNCHANGED <<run, traceVars>>
  /\ UNCHANGED <<recorded, knowledgeVars, state, plan, historyVars>>

\* Mutants: the id is not recorded.
BroadcastUnrecorded(c, id) ==
  /\ received' = [received EXCEPT ![c] = Append(@, id)]
  /\ UNCHANGED state
DoBroadcast(c, id) ==
  /\ received' = [received EXCEPT ![c] = Append(@, id)]
  /\ state' = [state EXCEPT ![c].applied = @ \union {id}]
\* execute_action; a swarm that has been retired meanwhile is not told.
Execute(a) ==
  /\ phase \in {"policy", "advised"} /\ a \in plan
  /\ plan' = plan \ {a}
  /\ IF run[a.challenge] \in {"running", "done"}
     THEN DoBroadcast(a.challenge, a.id)
     ELSE UNCHANGED <<state, received>>
  /\ UNCHANGED <<swarmVars, traceVars, knowledgeVars, phase, unread>>

\* When the plan is done, the state is built again, and the advisor asked, or not.
PolicyDone ==
  /\ phase = "policy" /\ plan = {}
  /\ state' = [c \in Challenges |-> Snapshot(c)]
  /\ phase' \in {"advice", "events"}
  /\ UNCHANGED <<swarmVars, traceVars, knowledgeVars, plan, historyVars>>

\* The reusable knowledge that the advisor's prompt lists for c; here the platform is named.
SummaryOf(c) == {e.id : e \in Matches(entries, c, state[c].applied, {Platform})}

\* The advisor suggests, for running swarms, broadcasts out of these summaries.  Its answers
\* come after awaits; the plan is made with the same state.
Advise ==
  /\ phase = "advice"
  /\ plan' \in SUBSET {[challenge |-> c, id |-> i] : c \in Challenges, i \in Known}
  /\ \A h \in plan' : state[h.challenge].status = "running" /\ h.id \in SummaryOf(h.challenge)
  /\ phase' = "advised"
  /\ UNCHANGED <<swarmVars, traceVars, knowledgeVars, state, historyVars>>

AdviceDone ==
  /\ phase = "advised" /\ plan = {}
  /\ state' = [c \in Challenges |-> Snapshot(c)]
  /\ phase' = "events"
  /\ UNCHANGED <<swarmVars, traceVars, knowledgeVars, plan, historyVars>>

ExecuteSome == \E a \in plan : Execute(a)
FlowGoesOn == Tick \/ PolicySpawn \/ ExecuteSome \/ PolicyDone \/ AdviceDone
SolverStep(c) == (\E t \in Writes[c] : Trace(c, t)) \/ Fallback(c) \/ SwarmEnds(c)
FlowNext == \/ FlowGoesOn \/ Advise
            \/ \E c \in Challenges : Spawn(c) \/ SolverStep(c) \/ EmptyFile(c)

(* The event loop waits for new events five seconds at most.  Nothing bounds the    *)
(* time an advisor takes to answer, and the loop waits for it.                       *)
FlowSpec == FlowInit /\ [][FlowNext]_flowVars
FlowFairness == WF_flowVars(FlowGoesOn)
FairFlowSpec == FlowSpec /\ FlowFairness

-----------------------------------------------------------------------------
(* Properties *)

\* The tail reads every line once, however a line is torn between two reads: what the
\* memory of a challenge has gained since its latest trace was opened is what the read
\* part of that trace says, and the pending part is the line that is open there.  An
\* emptied file may cost lines, and gives none that the solver did not write.
TailIsExact ==
  \A c \in Challenges :
    IF c \in truncated THEN memory[c] \subseteq Writes[c]
    ELSE LET read == SubSeq(file[c], 1, offset[c]) IN
         /\ memory[c] = earlier[c] \union (LinesIn(read) \cap Findings)
         /\ pending[c] = LastPart(read)

\* Whoever plans it, policy or advisor, a piece of knowledge reaches a challenge once, and
\* never the challenge it was found in.
ToldOnce ==
  \A c \in Challenges :
    /\ \A i, j \in DOMAIN received[c] : received[c][i] = received[c][j] => i = j
    /\ \A e \in entries : e.source = c => \A i \in DOMAIN received[c] : received[c][i] # e.id

\* A category rule that one solver has written down reaches every other swarm of the
\* category that did not find it first, one started later too, and also the last line of a
\* solver before it stops.  What may prevent it for ever: the trace is given up unread, by
\* a spawn that retires the swarm or by a fallback; somebody empties it; the other swarm
\* is the second of its challenge, which the first one's result hides from the policy; or
\* the loop waits for an advisor who never answers.
KnowledgeSpreads ==
  \/ <>[](phase = "advice")
  \/ \A c \in Challenges : \A d \in Challenges \ {c}, f \in Rules :
       Category[c] = Category[d] =>
         []<>(\/ f \notin memory[c] \union LinesIn(file[c])
              \/ run[d] # "running" \/ d \in recorded
              \/ c \in unread \union truncated
              \/ \E i \in DOMAIN received[d] : received[d][i] = IdOf(c, f)
              \/ [id |-> IdOf(c, f), source |-> d] \in entries)
=============================================================================
