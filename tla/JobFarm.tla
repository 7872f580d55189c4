-------------------------------- MODULE JobFarm ---------------------------------
(***************************************************************************)
(* The farm that searched the predictor's configuration space: server.pl   *)
(* hands one configuration (a job) to every client that connects, and      *)
(* forks a child that waits for its result and prints it; client.pl, kept  *)
(* running by looper.sh, connects, reads a job, runs it, and answers.      *)
(*                                                                         *)
(* Processes run and fail on their own: clients crash (their sockets are   *)
(* closed) or vanish (machine or network gone, sockets stay open), forks   *)
(* fail, children are killed, the server is stopped.  SIGCHLD signals are  *)
(* not queued: one may stand for the deaths of several children.           *)
(***************************************************************************)
EXTENDS Integers, Sequences, FiniteSets, SequencesExt

CONSTANTS
    NumJobs,    \* scalar @$jobs
    Workers,    \* the machines that run looper.sh
    Gone,       \* stands for a closed end of a connection
    MaxFaults   \* bound: crashes, vanishings, failed forks, kills and stops

ASSUME FarmAssumption ==
    /\ NumJobs \in Nat \ {0}
    /\ Gone \notin Workers
    /\ MaxFaults \in Nat

Jobs == 0..(NumJobs - 1)
NoJob == NumJobs

VARIABLES
    i,          \* the next job
    phase,      \* of the server: serving, draining, waiting, done, or dead
    loop,       \* cleared by SIGINT and SIGTERM
    orphaned,   \* getppid() == 1
    sigchld,    \* a SIGCHLD is pending for REAPER
    child,      \* per job: its child's status, its client, and the client's answer
    backlog,    \* connections not accepted yet
    worker,     \* per machine: what its client is doing
    task,       \* per machine: the job its client has read
    printed,    \* per job: results printed for it
    faults,
    excused,    \* history: jobs whose fork failed, whose child was killed, or
                \*   whose client crashed before it had answered
    signalled   \* history: some child died of a signal

vars == <<i, phase, loop, orphaned, sigchld, child, backlog, worker, task,
          printed, faults, excused, signalled>>

Alive(j) == child[j].status \in {"born", "asked"}
Dead(j) == child[j].status \in {"exited", "killed"}

\* Every child inherits the listening socket, so it outlives the server.
Listening == phase \notin {"done", "dead"} \/ \E j \in Jobs : Alive(j)

\* The last process to close the listening socket resets what waits in it; the
\* clients are doing what doing says.
ReleaseWith(doing) ==
    LET cut == IF Listening' THEN {} ELSE Range(backlog) \ {Gone}
    IN  /\ backlog' = IF Listening' THEN backlog ELSE << >>
        /\ worker' = [w \in Workers |->
               IF w \in cut /\ doing[w] = "connected" THEN "eof" ELSE doing[w]]

ReleaseSocket == ReleaseWith(worker)

Fault == faults < MaxFaults /\ faults' = faults + 1

Init ==
    /\ i = 0
    /\ phase = "serving"
    /\ loop = TRUE
    /\ orphaned = FALSE
    /\ sigchld = FALSE
    /\ child = [j \in Jobs |-> [status |-> "none", peer |-> Gone, answer |-> NoJob]]
    /\ backlog = << >>
    /\ worker = [w \in Workers |-> "idle"]
    /\ task = [w \in Workers |-> NoJob]
    /\ printed = [j \in Jobs |-> 0]
    /\ faults = 0
    /\ excused = {}
    /\ signalled = FALSE

--------------------------------------------------------------------------------
(* The server *)

\* accept() and spawn: the job is used up whether the fork succeeds or not.
Serve ==
    /\ phase = "serving" /\ i < NumJobs /\ backlog # << >>
    /\ LET peer == Head(backlog)
       IN  \/ /\ child' = [child EXCEPT ![i].status = "born", ![i].peer = peer]
              /\ excused' = IF peer = Gone THEN excused \cup {i} ELSE excused
              /\ UNCHANGED <<worker, faults>>
           \/ /\ Fault
              /\ excused' = excused \cup {i}
              /\ worker' = [w \in Workers |->
                     IF w = peer /\ worker[w] = "connected" THEN "eof" ELSE worker[w]]
              /\ UNCHANGED child
    /\ i' = i + 1
    /\ backlog' = Tail(backlog)
    /\ UNCHANGED <<phase, loop, orphaned, sigchld, task, printed, signalled>>

\* The children one run of REAPER collects: all that are dead, but its loop
\* stops at the first that died of a signal, in whatever order they come.
Reaped(collected) ==
    LET killed == {j \in Jobs : child[j].status = "killed"}
        exited == {j \in Jobs : child[j].status = "exited"}
    IN  IF killed = {} THEN collected = exited
        ELSE /\ collected \subseteq exited \cup killed
             /\ Cardinality(collected \cap killed) = 1

Bury(collected) ==
    child' = [j \in Jobs |->
        IF j \in collected THEN [child[j] EXCEPT !.status = "reaped"] ELSE child[j]]

\* Variant: one child per signal.
Reap_One ==
    /\ phase = "serving" /\ sigchld
    /\ sigchld' = FALSE
    /\ \/ (\E j \in Jobs : Dead(j) /\ Bury({j}))
       \/ (\A j \in Jobs : ~Dead(j)) /\ UNCHANGED child
    /\ UNCHANGED <<i, phase, loop, orphaned, backlog, worker, task, printed,
                   faults, excused, signalled>>

\* Variant: the turn that EINTR interrupts uses up a job.
Reap_SkipsJob ==
    /\ phase = "serving" /\ sigchld
    /\ sigchld' = FALSE
    /\ \E collected \in SUBSET Jobs : Reaped(collected) /\ Bury(collected)
    /\ i' = i + 1
    /\ UNCHANGED <<phase, loop, orphaned, backlog, worker, task, printed,
                   faults, excused, signalled>>

\* REAPER, which may interrupt accept(): the loop then tries the same job again.
Reap ==
    /\ phase = "serving" /\ sigchld
    /\ sigchld' = FALSE
    /\ \E collected \in SUBSET Jobs : Reaped(collected) /\ Bury(collected)
    /\ UNCHANGED <<i, phase, loop, orphaned, backlog, worker, task, printed,
                   faults, excused, signalled>>

\* All jobs are handed out: from here SIGCHLD is ignored.
LoopEnds ==
    /\ phase = "serving" /\ i = NumJobs
    /\ phase' = "draining"
    /\ sigchld' = FALSE
    /\ UNCHANGED <<i, loop, orphaned, child, backlog, worker, task, printed,
                   faults, excused, signalled>>

\* The test of the last loop.
CheckLoop ==
    /\ phase = "draining"
    /\ phase' = IF loop /\ ~orphaned THEN "waiting" ELSE "done"
    /\ UNCHANGED <<i, loop, orphaned, sigchld, child, task, printed, faults,
                   excused, signalled>>
    /\ ReleaseSocket

\* Variant: the loop does not end when there is no child left.
Await_NoEnd ==
    /\ phase = "waiting"
    /\ phase' = "draining"
    /\ \/ \E j \in Jobs : Dead(j) /\ Bury({j})
       \/ (\A j \in Jobs : ~Alive(j) /\ ~Dead(j)) /\ UNCHANGED child
    /\ UNCHANGED <<i, loop, orphaned, sigchld, task, printed, faults, excused,
                   signalled>>
    /\ ReleaseSocket

\* Variant: the loop ends after one child.
Await_Once ==
    /\ phase = "waiting"
    /\ phase' = "done"
    /\ \/ \E j \in Jobs : Dead(j) /\ Bury({j})
       \/ (\A j \in Jobs : ~Alive(j) /\ ~Dead(j)) /\ UNCHANGED child
    /\ UNCHANGED <<i, loop, orphaned, sigchld, task, printed, faults, excused,
                   signalled>>
    /\ ReleaseSocket

\* waitpid(-1, 0) blocks until a child is dead, or returns -1 without children.
Await ==
    /\ phase = "waiting"
    /\ \/ /\ \E j \in Jobs : Dead(j) /\ Bury({j})
          /\ phase' = "draining"
       \/ /\ \A j \in Jobs : ~Alive(j) /\ ~Dead(j)
          /\ phase' = "done"
          /\ UNCHANGED child
    /\ UNCHANGED <<i, loop, orphaned, sigchld, task, printed, faults, excused,
                   signalled>>
    /\ ReleaseSocket

\* SIGINT or SIGTERM.  It kills a server that is serving; later it only clears
\* loop: its kill(-15, pids) addresses process groups, and no child leads one.
Terminate ==
    /\ Fault
    /\ \/ phase = "serving" /\ phase' = "dead" /\ UNCHANGED loop
       \/ phase \in {"draining", "waiting"} /\ loop' = FALSE /\ UNCHANGED phase
    /\ UNCHANGED <<i, orphaned, sigchld, child, task, printed, excused, signalled>>
    /\ ReleaseSocket

\* The server's own parent exits.
ParentExits ==
    /\ ~orphaned
    /\ Fault
    /\ orphaned' = TRUE
    /\ UNCHANGED <<i, phase, loop, sigchld, child, backlog, worker, task, printed,
                   excused, signalled>>

ServerStep == Serve \/ Reap \/ LoopEnds \/ CheckLoop \/ Await

--------------------------------------------------------------------------------
(* The children *)

\* Variant: the child prints the job the server has come to meanwhile.
ChildPrint_Shared(j) ==
    /\ child[j].status = "born"
    /\ UNCHANGED <<i, phase, loop, orphaned, printed, faults, excused>>
    /\ LET w == child[j].peer
       IN  \/ /\ child' = [child EXCEPT ![j].status = "asked"]
              /\ IF w # Gone /\ worker[w] = "connected"
                 THEN /\ worker' = [worker EXCEPT ![w] = "working"]
                      /\ task' = [task EXCEPT ![w] = i % NumJobs]
                 ELSE UNCHANGED <<worker, task>>
              /\ UNCHANGED <<backlog, sigchld, signalled>>
           \/ /\ w = Gone
              /\ child' = [child EXCEPT ![j].status = "killed"]
              /\ sigchld' = (phase = "serving")
              /\ signalled' = TRUE
              /\ UNCHANGED task
              /\ ReleaseSocket

\* The child prints the job and then the newline: if the client has closed its
\* end meanwhile, the second print may be fatal (SIGPIPE).
ChildPrint(j) ==
    /\ child[j].status = "born"
    /\ UNCHANGED <<i, phase, loop, orphaned, printed, faults, excused>>
    /\ LET w == child[j].peer
       IN  \/ /\ child' = [child EXCEPT ![j].status = "asked"]
              /\ IF w # Gone /\ worker[w] = "connected"
                 THEN /\ worker' = [worker EXCEPT ![w] = "working"]
                      /\ task' = [task EXCEPT ![w] = j]
                 ELSE UNCHANGED <<worker, task>>
              /\ UNCHANGED <<backlog, sigchld, signalled>>
           \/ /\ w = Gone
              /\ child' = [child EXCEPT ![j].status = "killed"]
              /\ sigchld' = (phase = "serving")
              /\ signalled' = TRUE
              /\ UNCHANGED task
              /\ ReleaseSocket

\* Variant: the end of the connection is not noticed.
ChildRead_NoEof(j) ==
    /\ child[j].status = "asked"
    /\ child[j].answer # NoJob
    /\ printed' = [printed EXCEPT ![child[j].answer] = @ + 1]
    /\ child' = [child EXCEPT ![j].status = "exited"]
    /\ sigchld' = (phase = "serving")
    /\ UNCHANGED <<i, phase, loop, orphaned, task, faults, excused, signalled>>
    /\ ReleaseSocket

\* The child waits for an answer or the end of the connection, prints the former,
\* or nothing, and exits.
ChildRead(j) ==
    /\ child[j].status = "asked"
    /\ child[j].answer # NoJob \/ child[j].peer = Gone
    /\ printed' = IF child[j].answer = NoJob THEN printed
                  ELSE [printed EXCEPT ![child[j].answer] = @ + 1]
    /\ child' = [child EXCEPT ![j].status = "exited"]
    /\ sigchld' = (phase = "serving")
    /\ UNCHANGED <<i, phase, loop, orphaned, task, faults, excused, signalled>>
    /\ ReleaseSocket

\* Somebody, or the memory manager, kills a child.  Its client gets to the end of
\* the connection, at once or when its job is done.
ChildKilled(j) ==
    /\ Alive(j)
    /\ Fault
    /\ child' = [child EXCEPT ![j].status = "killed"]
    /\ sigchld' = (phase = "serving")
    /\ signalled' = TRUE
    /\ excused' = excused \cup {j}
    /\ UNCHANGED <<i, phase, loop, orphaned, printed>>
    /\ LET w == child[j].peer
       IN  IF w # Gone /\ worker[w] # "vanished"
           THEN /\ task' = [task EXCEPT ![w] = NoJob]
                /\ ReleaseWith([worker EXCEPT ![w] = "eof"])
           ELSE task' = task /\ ReleaseSocket

ChildStep(j) == ChildPrint(j) \/ ChildRead(j)

--------------------------------------------------------------------------------
(* The clients *)

\* looper.sh starts a client that connects.
Connect(w) ==
    /\ worker[w] = "idle" /\ Listening
    /\ worker' = [worker EXCEPT ![w] = "connected"]
    /\ backlog' = Append(backlog, w)
    /\ UNCHANGED <<i, phase, loop, orphaned, sigchld, child, task, printed,
                   faults, excused, signalled>>

\* The children whose connection w has the other end of.
Ends(w) == {j \in Jobs : Alive(j) /\ child[j].peer = w}

\* The client has run its job on all traces, sends the result and closes.
Answer(w) ==
    /\ worker[w] = "working"
    /\ child' = [j \in Jobs |-> IF j \in Ends(w)
                    THEN [child[j] EXCEPT !.answer = task[w], !.peer = Gone]
                    ELSE child[j]]
    /\ worker' = [worker EXCEPT ![w] = "idle"]
    /\ task' = [task EXCEPT ![w] = NoJob]
    /\ UNCHANGED <<i, phase, loop, orphaned, sigchld, backlog, printed, faults,
                   excused, signalled>>

\* A client that read no job runs an empty one all the same and then finds its
\* connection closed.
Eof(w) ==
    /\ worker[w] = "eof"
    /\ worker' = [worker EXCEPT ![w] = "idle"]
    /\ UNCHANGED <<i, phase, loop, orphaned, sigchld, child, backlog, task,
                   printed, faults, excused, signalled>>

\* The client dies.  Its end is closed, also while the server has yet to accept.
Crash(w) ==
    /\ worker[w] \in {"connected", "working"}
    /\ Fault
    /\ worker' = [worker EXCEPT ![w] = "idle"]
    /\ task' = [task EXCEPT ![w] = NoJob]
    /\ backlog' = [k \in DOMAIN backlog |-> IF backlog[k] = w THEN Gone ELSE backlog[k]]
    /\ child' = [j \in Jobs |-> IF j \in Ends(w) THEN [child[j] EXCEPT !.peer = Gone]
                                ELSE child[j]]
    /\ excused' = excused \cup Ends(w)
    /\ UNCHANGED <<i, phase, loop, orphaned, sigchld, printed, signalled>>

\* The machine or its network is gone and nobody is told.
Vanish(w) ==
    /\ worker[w] \in {"connected", "working"}
    /\ Fault
    /\ worker' = [worker EXCEPT ![w] = "vanished"]
    /\ task' = [task EXCEPT ![w] = NoJob]
    /\ UNCHANGED <<i, phase, loop, orphaned, sigchld, child, backlog, printed,
                   excused, signalled>>

ClientStep(w) == Connect(w) \/ Answer(w) \/ Eof(w)

--------------------------------------------------------------------------------
Next ==
    \/ ServerStep \/ Terminate \/ ParentExits
    \/ \E j \in Jobs : ChildStep(j) \/ ChildKilled(j)
    \/ \E w \in Workers : ClientStep(w) \/ Crash(w) \/ Vanish(w)

\* The operating system runs every process that can run, looper.sh restarts its
\* client for ever, and a job on a finite trace ends.
Fairness ==
    /\ WF_vars(ServerStep)
    /\ \A j \in Jobs : WF_vars(ChildStep(j))
    /\ \A w \in Workers : WF_vars(ClientStep(w))

Spec == Init /\ [][Next]_vars /\ Fairness

--------------------------------------------------------------------------------
(* Properties *)

Children == [status : {"none", "born", "asked", "exited", "killed", "reaped"},
             peer : Workers \cup {Gone}, answer : Jobs \cup {NoJob}]
Doings == {"idle", "connected", "working", "eof", "vanished"}

\* Type correctness.
TypeOK ==
    /\ i \in 0..NumJobs
    /\ phase \in {"serving", "draining", "waiting", "done", "dead"}
    /\ loop \in BOOLEAN /\ orphaned \in BOOLEAN /\ sigchld \in BOOLEAN
    /\ child \in [Jobs -> Children]
    /\ backlog \in Seq(Workers \cup {Gone})
    /\ worker \in [Workers -> Doings]
    /\ task \in [Workers -> Jobs \cup {NoJob}]
    /\ printed \in [Jobs -> Nat]
    /\ faults \in 0..MaxFaults
    /\ excused \subseteq Jobs /\ signalled \in BOOLEAN

\* A job is worked on by one machine at a time and its result is printed once:
\* the child prints the value of $i at its fork, whatever the server and the
\* other children do meanwhile.
AtMostOnce ==
    \A j \in Jobs :
        printed[j] + Cardinality({w \in Workers : task[w] = j})
                   + Cardinality({c \in Jobs : Alive(c) /\ child[c].answer = j}) <= 1

\* A job handed out is lost only for cause: when its child is gone, its result is
\* printed, or its fork had failed, its child was killed or its client crashed.
\* An interrupted accept() loses nothing.
LossesExplained ==
    \A j \in 0..(i - 1) : ~Alive(j) => printed[j] = 1 \/ j \in excused

\* Signals that coalesce lose no child: as long as none died of a signal, a dead
\* child waits only when REAPER is about to run.
ZombiesAnnounced ==
    phase = "serving" /\ ~sigchld /\ ~signalled => \A j \in Jobs : ~Dead(j)

\* A server that ends by itself has waited for every child, so the output is
\* complete.
CleanExit ==
    phase = "done" /\ loop /\ ~orphaned
        => \A j \in Jobs : child[j].status \in {"none", "reaped"}

\* Every job gets settled, even when the server is gone, unless its client
\* vanished: there is no timeout.
JobsSettle ==
    \A j \in Jobs :
        Alive(j) ~> (~Alive(j) \/ \E w \in Workers : worker[w] = "vanished"
                                                    /\ child[j].peer = w)

\* The farm comes to its end, whatever crashes, unless some client vanished.
Completion ==
    <>(phase \in {"done", "dead"} \/ \E w \in Workers : worker[w] = "vanished")

\* What became of a job.  One that is out belongs to a child that lives.
Fate(j) ==
    CASE printed[j] = 1 -> "printed"
      [] printed[j] > 1 -> "twice"
      [] printed[j] = 0 /\ Alive(j) -> "out"
      [] printed[j] = 0 /\ ~Alive(j) -> IF j < i THEN "lost" ELSE "todo"

Pool == INSTANCE JobPool WITH next <- i, fate <- [j \in Jobs |-> Fate(j)]

\* Whatever processes, sockets and signals do, the farm is a pool of jobs: one is
\* handed out at a time and in order, a step of the server, of a child, of a client
\* or of a fault settles at most one, and no job settled is ever taken up again.
ImplementsJobPool == Pool!Spec
================================================================================
