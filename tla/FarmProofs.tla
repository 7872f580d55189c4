------------------------------- MODULE FarmProofs --------------------------------
(***************************************************************************)
(* JobFarm's safety for any number of jobs, machines and faults.           *)
(***************************************************************************)
EXTENDS JobFarm, FiniteSetTheorems, TLAPS

\* Jobs not handed out have no child.
Unborn == \A j \in Jobs : j >= i => child[j].status = "none"

\* What a child has read is the result of its own job, and nothing more can come;
\* only it prints that result, and only once; and a child that will read nothing
\* has an excuse.
Outcomes ==
    \A j \in Jobs :
        /\ child[j].answer # NoJob => /\ child[j].answer = j
                                      /\ child[j].peer = Gone
                                      /\ child[j].status \notin {"none", "born"}
        /\ printed[j] \in {0, 1}
        /\ printed[j] = 1 => child[j].status \in {"exited", "reaped"}
        /\ Alive(j) /\ child[j].peer = Gone /\ child[j].answer = NoJob
              => j \in excused
        /\ child[j].status = "killed" => signalled

\* A client has one connection: a place in the backlog, ...
Waiting ==
    \A k \in DOMAIN backlog : backlog[k] # Gone =>
        /\ worker[backlog[k]] \in {"connected", "vanished"}
        /\ \A l \in DOMAIN backlog : backlog[l] = backlog[k] => l = k
        /\ \A j \in Jobs : Alive(j) => child[j].peer # backlog[k]

\* ... or a child, to itself.
Served ==
    \A j \in Jobs : Alive(j) /\ child[j].peer # Gone =>
        /\ worker[child[j].peer] \in
             IF child[j].status = "born" THEN {"connected", "vanished"}
             ELSE {"working", "vanished"}
        /\ \A l \in Jobs : Alive(l) /\ child[l].peer = child[j].peer => l = j

\* The job a client works on is that of the child that waits for it.
Tasks ==
    \A w \in Workers :
        IF worker[w] = "working"
        THEN /\ task[w] \in Jobs
             /\ child[task[w]].status = "asked"
             /\ child[task[w]].peer = w
        ELSE task[w] = NoJob

FarmInv ==
    /\ TypeOK
    /\ Unborn
    /\ Outcomes
    /\ Waiting
    /\ Served
    /\ Tasks
    /\ LossesExplained
    /\ ZombiesAnnounced
    /\ CleanExit

--------------------------------------------------------------------------------
(* What the steps are made of *)

LEMMA JobFacts ==
    /\ NumJobs \in Nat /\ NumJobs > 0
    /\ Jobs \subseteq Nat
    /\ NoJob \notin Jobs
    /\ Gone \notin Workers
    /\ MaxFaults \in Nat
BY FarmAssumption DEF Jobs, NoJob

\* The fields of a child.
LEMMA ChildFields ==
    ASSUME TypeOK, NEW j \in Jobs
    PROVE  /\ child[j] \in Children
           /\ child[j].status \in {"none", "born", "asked", "exited", "killed", "reaped"}
           /\ child[j].peer \in Workers \cup {Gone}
           /\ child[j].answer \in Jobs \cup {NoJob}
           /\ child[j] = [status |-> child[j].status, peer |-> child[j].peer,
                          answer |-> child[j].answer]
BY DEF TypeOK, Children

\* When the listening socket is released, the backlog stays or is cut, and a
\* client is told only if it waits there.
LEMMA Release ==
    ASSUME TypeOK, NEW doing \in [Workers -> Doings], ReleaseWith(doing)
    PROVE  /\ backlog' \in Seq(Workers \cup {Gone})
           /\ backlog' = backlog \/ backlog' = << >>
           /\ worker' \in [Workers -> Doings]
           /\ \A w \in Workers :
                worker'[w] # doing[w] =>
                    /\ doing[w] = "connected" /\ worker'[w] = "eof"
                    /\ backlog' = << >>
                    /\ \E k \in DOMAIN backlog : backlog[k] = w
<1>. DEFINE cut == IF Listening' THEN {} ELSE Range(backlog) \ {Gone}
<1>1. /\ backlog' = IF Listening' THEN backlog ELSE << >>
      /\ worker' = [w \in Workers |->
            IF w \in cut /\ doing[w] = "connected" THEN "eof" ELSE doing[w]]
  BY DEF ReleaseWith
<1>2. \A w \in Workers : w \in cut =>
        /\ backlog' = << >>
        /\ \E k \in DOMAIN backlog : backlog[k] = w
  BY <1>1 DEF Range
<1>. HIDE DEF cut
<1>3. /\ backlog' \in Seq(Workers \cup {Gone})
      /\ backlog' = backlog \/ backlog' = << >>
  BY <1>1 DEF TypeOK
<1>. QED  BY <1>1, <1>2, <1>3 DEF Doings

LEMMA FarmInvInit == Init => FarmInv
<1>. SUFFICES ASSUME Init PROVE FarmInv
  OBVIOUS
<1>1. TypeOK
  <2>1. 0 \in 0..NumJobs /\ 0 \in 0..MaxFaults
    BY JobFacts
  <2>2. child \in [Jobs -> Children] /\ printed \in [Jobs -> Nat]
    BY DEF Init, Children
  <2>3. /\ worker \in [Workers -> Doings]
        /\ task \in [Workers -> Jobs \cup {NoJob}]
        /\ backlog \in Seq(Workers \cup {Gone})
    BY DEF Init, Doings
  <2>. QED  BY <2>1, <2>2, <2>3 DEF Init, TypeOK
<1>2. Unborn /\ Outcomes /\ Waiting /\ Served
  BY JobFacts DEF Init, Unborn, Outcomes, Waiting, Served, Alive
<1>3. Tasks /\ LossesExplained
  BY JobFacts DEF Init, Tasks, LossesExplained
<1>4. ZombiesAnnounced /\ CleanExit
  BY DEF Init, ZombiesAnnounced, CleanExit, Dead
<1>. QED  BY <1>1, <1>2, <1>3, <1>4 DEF FarmInv

--------------------------------------------------------------------------------
(* Steps in which a child ends, or nothing happens to the children *)

\* Children change only by ending, and one that ends had no client left.
ChildrenEnd ==
    /\ child' \in [Jobs -> Children]
    /\ \A j \in Jobs :
        \/ child'[j] = child[j]
        \/ /\ ~Alive(j) \/ child[j].peer = Gone
           /\ child'[j].status \notin {"born", "asked"}

LEMMA EndingKeepsConnections ==
    ASSUME FarmInv, ChildrenEnd, task' = task,
           ReleaseSocket \/ UNCHANGED <<backlog, worker>>
    PROVE  (Waiting /\ Served /\ Tasks)'
<1>1. /\ backlog' = backlog \/ backlog' = << >>
      /\ worker' \in [Workers -> Doings]
      /\ \A w \in Workers :
            worker'[w] # worker[w] =>
                /\ worker[w] = "connected" /\ worker'[w] = "eof"
                /\ backlog' = << >>
                /\ \E k \in DOMAIN backlog : backlog[k] = w
  <2>1. worker \in [Workers -> Doings] /\ TypeOK
    BY DEF FarmInv, TypeOK
  <2>. QED  BY <2>1, Release DEF ReleaseSocket
<1>2. \A j \in Jobs : Alive(j)' => child'[j] = child[j] /\ Alive(j)
  BY DEF ChildrenEnd, Alive
<1>3. backlog \in Seq(Workers \cup {Gone})
  BY DEF FarmInv, TypeOK
<1>4. Waiting'
  <2>1. CASE backlog' = << >>
    BY <2>1 DEF Waiting
  <2>2. CASE backlog' = backlog /\ backlog # << >>
    BY <1>1, <1>2, <1>3, <2>2 DEF FarmInv, Waiting
  <2>. QED  BY <1>1, <2>1, <2>2
<1>5. Served'
  <2>. SUFFICES ASSUME NEW j \in Jobs, Alive(j)', child'[j].peer # Gone
                PROVE  /\ worker'[child'[j].peer] \in
                            IF child'[j].status = "born" THEN {"connected", "vanished"}
                            ELSE {"working", "vanished"}
                       /\ \A l \in Jobs :
                            Alive(l)' /\ child'[l].peer = child'[j].peer => l = j
    BY DEF Served
  <2>1. child'[j] = child[j] /\ Alive(j)
    BY <1>2
  <2>2. child[j].peer \in Workers
    BY <2>1, ChildFields DEF FarmInv
  <2>3. worker'[child[j].peer] = worker[child[j].peer]
    BY <1>1, <2>1, <2>2, JobFacts DEF FarmInv, Waiting
  <2>. QED  BY <1>2, <2>1, <2>3 DEF FarmInv, Served
<1>6. Tasks'
  <2>. SUFFICES ASSUME NEW w \in Workers
                PROVE  IF worker'[w] = "working"
                       THEN /\ task[w] \in Jobs
                            /\ child'[task[w]].status = "asked"
                            /\ child'[task[w]].peer = w
                       ELSE task[w] = NoJob
    BY DEF Tasks
  <2>1. CASE worker'[w] = "working"
    <3>1. worker[w] = "working"
      BY <1>1, <2>1
    <3>2. task[w] \in Jobs /\ child[task[w]].status = "asked" /\ child[task[w]].peer = w
      BY <3>1 DEF FarmInv, Tasks
    <3>3. child'[task[w]] = child[task[w]]
      BY <3>2, JobFacts DEF ChildrenEnd, Alive
    <3>. QED  BY <2>1, <3>2, <3>3
  <2>2. CASE worker'[w] # "working"
    <3>1. worker[w] # "working"
      BY <1>1, <2>2
    <3>. QED  BY <2>2, <3>1 DEF FarmInv, Tasks
  <2>. QED  BY <2>1, <2>2
<1>. QED  BY <1>4, <1>5, <1>6

\* Collecting dead children.
LEMMA BuryEnds ==
    ASSUME TypeOK, NEW collected \in SUBSET Jobs, Bury(collected),
           \A j \in collected : Dead(j)
    PROVE  /\ ChildrenEnd
           /\ \A j \in Jobs :
                IF j \in collected
                THEN /\ child'[j].status = "reaped"
                     /\ child'[j].peer = child[j].peer
                     /\ child'[j].answer = child[j].answer
                ELSE child'[j] = child[j]
<1>1. child' = [j \in Jobs |-> IF j \in collected
                               THEN [child[j] EXCEPT !.status = "reaped"]
                               ELSE child[j]]
  BY DEF Bury
<1>2. \A j \in Jobs : child[j] \in Children
  BY DEF TypeOK
<1>3. \A j \in Jobs :
        LET buried == [child[j] EXCEPT !.status = "reaped"]
        IN  /\ buried \in Children
            /\ buried.status = "reaped"
            /\ buried.peer = child[j].peer
            /\ buried.answer = child[j].answer
  BY <1>2 DEF Children
<1>4. child' \in [Jobs -> Children]
  BY <1>1, <1>2, <1>3
<1>. QED  BY <1>1, <1>3, <1>4 DEF ChildrenEnd, Dead, Alive

\* Steps that bury some dead children, or none, and touch nothing else of the jobs.
LEMMA BuryingKeepsJobs ==
    ASSUME FarmInv, NEW collected \in SUBSET Jobs, Bury(collected),
           \A j \in collected : Dead(j),
           i' = i, printed' = printed, excused' = excused, signalled' = signalled,
           task' = task, ReleaseSocket \/ UNCHANGED <<backlog, worker>>
    PROVE  /\ (Unborn /\ Outcomes /\ LossesExplained /\ Waiting /\ Served /\ Tasks)'
           /\ child' \in [Jobs -> Children]
           /\ \A j \in Jobs : Dead(j)' => Dead(j)
           /\ \A j \in Jobs : child[j].status \in {"none", "reaped"}
                                => child'[j].status \in {"none", "reaped"}
<1>1. /\ ChildrenEnd
      /\ \A j \in Jobs :
            IF j \in collected
            THEN /\ child'[j].status = "reaped"
                 /\ child'[j].peer = child[j].peer
                 /\ child'[j].answer = child[j].answer
            ELSE child'[j] = child[j]
  BY BuryEnds DEF FarmInv
<1>2. (Waiting /\ Served /\ Tasks)'
  BY <1>1, EndingKeepsConnections
<1>3. Unborn'
  BY <1>1 DEF FarmInv, Unborn, Dead
<1>4. Outcomes'
  <2>. SUFFICES ASSUME NEW j \in Jobs
                PROVE  /\ child'[j].answer # NoJob =>
                            /\ child'[j].answer = j
                            /\ child'[j].peer = Gone
                            /\ child'[j].status \notin {"none", "born"}
                       /\ printed[j] \in {0, 1}
                       /\ printed[j] = 1 => child'[j].status \in {"exited", "reaped"}
                       /\ Alive(j)' /\ child'[j].peer = Gone
                            /\ child'[j].answer = NoJob => j \in excused
                       /\ child'[j].status = "killed" => signalled
    BY DEF Outcomes
  <2>1. CASE j \in collected
    BY <1>1, <2>1 DEF FarmInv, Outcomes, Alive
  <2>2. CASE j \notin collected
    BY <1>1, <2>2 DEF FarmInv, Outcomes, Alive
  <2>. QED  BY <2>1, <2>2
<1>5. LossesExplained'
  <2>. SUFFICES ASSUME NEW j \in 0..(i - 1), ~Alive(j)'
                PROVE  printed[j] = 1 \/ j \in excused
    BY DEF LossesExplained
  <2>1. j \in Jobs
    BY FarmAssumption DEF FarmInv, TypeOK, Jobs
  <2>2. ~Alive(j)
    BY <1>1, <2>1 DEF Alive, Dead
  <2>. QED  BY <2>2 DEF FarmInv, LossesExplained
<1>6. \A j \in Jobs : Dead(j)' => Dead(j)
  BY <1>1 DEF Dead
<1>7. \A j \in Jobs : child[j].status \in {"none", "reaped"}
                        => child'[j].status \in {"none", "reaped"}
  BY <1>1
<1>. QED  BY <1>1, <1>2, <1>3, <1>4, <1>5, <1>6, <1>7 DEF ChildrenEnd

LEMMA ReapKeepsInv ==
    ASSUME FarmInv, Reap
    PROVE  FarmInv'
<1>1. PICK collected \in SUBSET Jobs : Reaped(collected) /\ Bury(collected)
  BY DEF Reap
<1>2. \A j \in collected : Dead(j)
  BY <1>1 DEF Reaped, Dead
<1>3. /\ (Unborn /\ Outcomes /\ LossesExplained /\ Waiting /\ Served /\ Tasks)'
      /\ child' \in [Jobs -> Children]
  BY <1>1, <1>2, BuryingKeepsJobs DEF Reap
<1>4. TypeOK'
  BY <1>3 DEF FarmInv, TypeOK, Reap
<1>5. ZombiesAnnounced'
  <2>. SUFFICES ASSUME ~signalled, NEW j \in Jobs PROVE ~Dead(j)'
    BY DEF ZombiesAnnounced, Reap
  <2>1. \A k \in Jobs : child[k].status # "killed"
    BY DEF FarmInv, Outcomes
  <2>2. collected = {k \in Jobs : child[k].status = "exited"}
    BY <1>1, <2>1 DEF Reaped
  <2>3. IF j \in collected THEN child'[j].status = "reaped" ELSE child'[j] = child[j]
    BY <1>1, <1>2, BuryEnds DEF FarmInv
  <2>. QED  BY <2>1, <2>2, <2>3 DEF Dead
<1>6. CleanExit'
  BY DEF Reap, CleanExit
<1>. QED  BY <1>3, <1>4, <1>5, <1>6 DEF FarmInv

LEMMA AwaitKeepsInv ==
    ASSUME FarmInv, Await
    PROVE  FarmInv'
<1>1. PICK collected \in SUBSET Jobs :
        /\ Bury(collected)
        /\ \A j \in collected : Dead(j)
        /\ \/ phase' = "draining"
           \/ phase' = "done" /\ \A j \in Jobs : ~Alive(j) /\ ~Dead(j)
  <2>1. CASE \E j \in Jobs : Dead(j) /\ Bury({j}) /\ phase' = "draining"
    BY <2>1
  <2>2. CASE /\ \A j \in Jobs : ~Alive(j) /\ ~Dead(j)
             /\ phase' = "done"
             /\ child' = child
    <3>1. Bury({})
      BY <2>2 DEF Bury, FarmInv, TypeOK
    <3>. QED  BY <2>2, <3>1
  <2>. QED  BY <2>1, <2>2 DEF Await
<1>2. /\ (Unborn /\ Outcomes /\ LossesExplained /\ Waiting /\ Served /\ Tasks)'
      /\ child' \in [Jobs -> Children]
      /\ \A j \in Jobs : child[j].status \in {"none", "reaped"}
                            => child'[j].status \in {"none", "reaped"}
  BY <1>1, BuryingKeepsJobs DEF Await
<1>3. backlog' \in Seq(Workers \cup {Gone}) /\ worker' \in [Workers -> Doings]
  BY Release DEF Await, ReleaseSocket, FarmInv, TypeOK
<1>4. TypeOK'
  BY <1>1, <1>2, <1>3 DEF FarmInv, TypeOK, Await
<1>5. ZombiesAnnounced'
  BY <1>1 DEF ZombiesAnnounced
<1>6. CleanExit'
  <2>1. CASE phase' = "draining"
    BY <2>1 DEF CleanExit
  <2>2. CASE \A j \in Jobs : ~Alive(j) /\ ~Dead(j)
    <3>1. \A j \in Jobs : child[j].status \in {"none", "reaped"}
      BY <2>2, ChildFields DEF FarmInv, Alive, Dead
    <3>. QED  BY <1>2, <3>1 DEF CleanExit
  <2>. QED  BY <1>1, <2>1, <2>2
<1>. QED  BY <1>2, <1>4, <1>5, <1>6 DEF FarmInv

\* Steps that leave the children alone.
LEMMA IdleKeepsJobs ==
    ASSUME FarmInv, UNCHANGED <<i, child, printed, excused, signalled, task>>,
           ReleaseSocket \/ UNCHANGED <<backlog, worker>>
    PROVE  /\ (Unborn /\ Outcomes /\ LossesExplained /\ Waiting /\ Served /\ Tasks)'
           /\ backlog' \in Seq(Workers \cup {Gone})
           /\ worker' \in [Workers -> Doings]
<1>1. Bury({})
  BY DEF Bury, FarmInv, TypeOK
<1>2. (Unborn /\ Outcomes /\ LossesExplained /\ Waiting /\ Served /\ Tasks)'
  BY <1>1, BuryingKeepsJobs
<1>3. backlog' \in Seq(Workers \cup {Gone}) /\ worker' \in [Workers -> Doings]
  BY Release DEF ReleaseSocket, FarmInv, TypeOK
<1>. QED  BY <1>2, <1>3

LEMMA LoopEndsKeepsInv ==
    ASSUME FarmInv, LoopEnds
    PROVE  FarmInv'
<1>1. (Unborn /\ Outcomes /\ LossesExplained /\ Waiting /\ Served /\ Tasks)'
  BY IdleKeepsJobs DEF LoopEnds
<1>2. TypeOK' /\ ZombiesAnnounced' /\ CleanExit'
  BY DEF LoopEnds, FarmInv, TypeOK, ZombiesAnnounced, CleanExit
<1>. QED  BY <1>1, <1>2 DEF FarmInv

LEMMA CheckLoopKeepsInv ==
    ASSUME FarmInv, CheckLoop
    PROVE  FarmInv'
<1>1. /\ (Unborn /\ Outcomes /\ LossesExplained /\ Waiting /\ Served /\ Tasks)'
      /\ backlog' \in Seq(Workers \cup {Gone})
      /\ worker' \in [Workers -> Doings]
  BY IdleKeepsJobs DEF CheckLoop
<1>2. TypeOK' /\ ZombiesAnnounced' /\ CleanExit'
  BY <1>1 DEF CheckLoop, FarmInv, TypeOK, ZombiesAnnounced, CleanExit
<1>. QED  BY <1>1, <1>2 DEF FarmInv

\* A fault keeps the count of faults in its bounds.
LEMMA FaultBound ==
    ASSUME TypeOK, Fault
    PROVE  faults' \in 0..MaxFaults
BY JobFacts DEF TypeOK, Fault

LEMMA TerminateKeepsInv ==
    ASSUME FarmInv, Terminate
    PROVE  FarmInv'
<1>1. /\ (Unborn /\ Outcomes /\ LossesExplained /\ Waiting /\ Served /\ Tasks)'
      /\ backlog' \in Seq(Workers \cup {Gone})
      /\ worker' \in [Workers -> Doings]
  BY IdleKeepsJobs DEF Terminate
<1>2. faults' \in 0..MaxFaults
  BY FaultBound DEF FarmInv, Terminate
<1>3. TypeOK'
  BY <1>1, <1>2 DEF Terminate, FarmInv, TypeOK
<1>4. ZombiesAnnounced' /\ CleanExit'
  BY DEF Terminate, FarmInv, ZombiesAnnounced, CleanExit, Dead
<1>. QED  BY <1>1, <1>3, <1>4 DEF FarmInv

LEMMA ParentExitsKeepsInv ==
    ASSUME FarmInv, ParentExits
    PROVE  FarmInv'
<1>1. (Unborn /\ Outcomes /\ LossesExplained /\ Waiting /\ Served /\ Tasks)'
  BY IdleKeepsJobs DEF ParentExits
<1>2. faults' \in 0..MaxFaults
  BY FaultBound DEF FarmInv, ParentExits
<1>3. TypeOK'
  BY <1>2 DEF ParentExits, FarmInv, TypeOK
<1>4. ZombiesAnnounced' /\ CleanExit'
  BY DEF ParentExits, FarmInv, ZombiesAnnounced, CleanExit, Dead
<1>. QED  BY <1>1, <1>3, <1>4 DEF FarmInv

\* A child that has no client left ends: it has printed its answer, if it had one.
LEMMA ChildReadKeepsInv ==
    ASSUME FarmInv, NEW j \in Jobs, ChildRead(j)
    PROVE  FarmInv'
<1>. TypeOK
  BY DEF FarmInv
<1>1. /\ child[j].status = "asked"
      /\ child[j].peer = Gone
      /\ child[j].answer \in {j, NoJob}
      /\ printed[j] = 0
      /\ i > j
  BY JobFacts, ChildFields DEF FarmInv, Outcomes, ChildRead, Unborn, TypeOK
<1>2. child' = [child EXCEPT ![j] = [@ EXCEPT !.status = "exited"]]
  BY DEF ChildRead
<1>3. /\ child' \in [Jobs -> Children]
      /\ child'[j].status = "exited"
      /\ child'[j].peer = child[j].peer
      /\ child'[j].answer = child[j].answer
      /\ \A k \in Jobs : k # j => child'[k] = child[k]
  BY <1>2 DEF TypeOK, Children
<1>4. ChildrenEnd
  BY <1>1, <1>3 DEF ChildrenEnd, Alive
<1>5. (Waiting /\ Served /\ Tasks)'
  BY <1>4, EndingKeepsConnections DEF ChildRead
<1>6. /\ backlog' \in Seq(Workers \cup {Gone})
      /\ worker' \in [Workers -> Doings]
  BY Release DEF ChildRead, ReleaseSocket, TypeOK
<1>7. /\ printed' \in [Jobs -> Nat]
      /\ \A k \in Jobs : k # j => printed'[k] = printed[k]
      /\ printed'[j] = IF child[j].answer = NoJob THEN 0 ELSE 1
  BY <1>1 DEF ChildRead, TypeOK
<1>8. TypeOK'
  BY <1>3, <1>6, <1>7 DEF ChildRead, TypeOK
<1>9. Unborn'
  BY <1>1, <1>3, JobFacts DEF FarmInv, Unborn, ChildRead
<1>10. Outcomes'
  <2>. SUFFICES ASSUME NEW k \in Jobs
                PROVE  /\ child'[k].answer # NoJob =>
                            /\ child'[k].answer = k
                            /\ child'[k].peer = Gone
                            /\ child'[k].status \notin {"none", "born"}
                       /\ printed'[k] \in {0, 1}
                       /\ printed'[k] = 1 => child'[k].status \in {"exited", "reaped"}
                       /\ Alive(k)' /\ child'[k].peer = Gone
                            /\ child'[k].answer = NoJob => k \in excused'
                       /\ child'[k].status = "killed" => signalled'
    BY DEF Outcomes
  <2>0. excused' = excused /\ signalled' = signalled
    BY DEF ChildRead
  <2>1. CASE k = j
    BY <1>1, <1>3, <1>7, <2>1, JobFacts DEF Alive
  <2>2. CASE k # j
    BY <1>3, <1>7, <2>0, <2>2 DEF FarmInv, Outcomes, Alive
  <2>. QED  BY <2>1, <2>2
<1>11. LossesExplained'
  <2>. SUFFICES ASSUME NEW k \in 0..(i - 1), ~Alive(k)'
                PROVE  printed'[k] = 1 \/ k \in excused
    BY DEF LossesExplained, ChildRead
  <2>1. k \in Jobs
    BY FarmAssumption DEF TypeOK, Jobs
  <2>2. CASE k = j
    BY <1>1, <1>7, <2>2 DEF FarmInv, Outcomes, Alive
  <2>3. CASE k # j
    BY <1>3, <1>7, <2>1, <2>3 DEF FarmInv, LossesExplained, Alive
  <2>. QED  BY <2>2, <2>3
<1>12. ZombiesAnnounced'
  BY DEF ZombiesAnnounced, ChildRead
<1>13. CleanExit'
  BY <1>1 DEF FarmInv, CleanExit, ChildRead
<1>. QED  BY <1>5, <1>8, <1>9, <1>10, <1>11, <1>12, <1>13 DEF FarmInv

\* A child that dies at its second print has no client any more.
LEMMA ChildDiesKeepsInv ==
    ASSUME FarmInv, NEW j \in Jobs, ChildPrint(j), child'[j].status = "killed"
    PROVE  FarmInv'
<1>. TypeOK
  BY DEF FarmInv
<1>1. /\ child[j].status = "born"
      /\ child[j].peer = Gone
      /\ child[j].answer = NoJob
      /\ printed[j] = 0
      /\ j \in excused
      /\ i > j
      /\ child' = [child EXCEPT ![j] = [@ EXCEPT !.status = "killed"]]
      /\ sigchld' = (phase = "serving")
      /\ signalled' = TRUE
      /\ task' = task
      /\ ReleaseSocket
      /\ UNCHANGED <<i, phase, loop, orphaned, printed, faults, excused>>
  <2>1. child[j].status = "born" /\ child[j] \in Children
    BY DEF ChildPrint, TypeOK
  <2>2. [child EXCEPT ![j].status = "asked"][j].status # "killed"
    BY <2>1 DEF Children, TypeOK
  <2>3. /\ child[j].peer = Gone
        /\ child' = [child EXCEPT ![j].status = "killed"]
        /\ sigchld' = (phase = "serving")
        /\ signalled' = TRUE
        /\ task' = task
        /\ ReleaseSocket
        /\ UNCHANGED <<i, phase, loop, orphaned, printed, faults, excused>>
    BY <2>2 DEF ChildPrint
  <2>4. child[j].answer = NoJob /\ printed[j] = 0 /\ j \in excused
    BY <2>1, <2>3 DEF FarmInv, Outcomes, Alive
  <2>5. i > j
    BY <2>1, JobFacts DEF FarmInv, Unborn, TypeOK
  <2>. QED  BY <2>1, <2>3, <2>4, <2>5
<1>2. /\ child' \in [Jobs -> Children]
      /\ child'[j].peer = child[j].peer
      /\ child'[j].answer = child[j].answer
      /\ \A k \in Jobs : k # j => child'[k] = child[k]
  BY <1>1 DEF TypeOK, Children
<1>3. ChildrenEnd
  BY <1>1, <1>2 DEF ChildrenEnd, Alive
<1>4. (Waiting /\ Served /\ Tasks)'
  BY <1>1, <1>3, EndingKeepsConnections
<1>5. backlog' \in Seq(Workers \cup {Gone}) /\ worker' \in [Workers -> Doings]
  BY <1>1, Release DEF ReleaseSocket, TypeOK
<1>6. TypeOK'
  BY <1>1, <1>2, <1>5 DEF TypeOK
<1>7. Unborn'
  BY <1>1, <1>2, JobFacts DEF FarmInv, Unborn
<1>8. Outcomes'
  BY <1>1, <1>2 DEF FarmInv, Outcomes, Alive
<1>9. LossesExplained'
  BY <1>1, <1>2, FarmAssumption DEF FarmInv, LossesExplained, Alive, TypeOK, Jobs
<1>10. ZombiesAnnounced' /\ CleanExit'
  BY <1>1, <1>2 DEF FarmInv, ZombiesAnnounced, CleanExit
<1>. QED  BY <1>4, <1>6, <1>7, <1>8, <1>9, <1>10 DEF FarmInv

\* A child that has printed its job waits, and its client works on that job.
LEMMA ChildAsksKeepsInv ==
    ASSUME FarmInv, NEW j \in Jobs, ChildPrint(j), child'[j].status # "killed"
    PROVE  FarmInv'
<1>. DEFINE w == child[j].peer
<1>. TypeOK
  BY DEF FarmInv
<1>1. /\ child[j].status = "born"
      /\ child[j] \in Children
      /\ child' = [child EXCEPT ![j] = [@ EXCEPT !.status = "asked"]]
      /\ IF w # Gone /\ worker[w] = "connected"
         THEN /\ worker' = [worker EXCEPT ![w] = "working"]
              /\ task' = [task EXCEPT ![w] = j]
         ELSE UNCHANGED <<worker, task>>
      /\ UNCHANGED <<i, phase, loop, orphaned, sigchld, backlog, printed, faults,
                     excused, signalled>>
  <2>1. child[j].status = "born" /\ child[j] \in Children
    BY DEF ChildPrint, TypeOK
  <2>2. [child EXCEPT ![j].status = "killed"][j].status = "killed"
    BY <2>1 DEF Children, TypeOK
  <2>. QED  BY <2>1, <2>2 DEF ChildPrint
<1>2. /\ child' \in [Jobs -> Children]
      /\ child'[j].status = "asked"
      /\ child'[j].peer = w
      /\ child'[j].answer = child[j].answer
      /\ \A k \in Jobs : k # j => child'[k] = child[k]
  BY <1>1 DEF TypeOK, Children
<1>3. \A k \in Jobs : Alive(k)' <=> Alive(k)
  BY <1>1, <1>2 DEF Alive
<1>4. w \in Workers \cup {Gone}
  BY <1>1 DEF Children
<1>5. w # Gone => worker[w] \in {"connected", "vanished"}
  BY <1>1 DEF FarmInv, Served, Alive
<1>6. i > j
  BY <1>1, JobFacts DEF FarmInv, Unborn, TypeOK
<1>7. /\ worker' \in [Workers -> Doings]
      /\ task' \in [Workers -> Jobs \cup {NoJob}]
      /\ \A v \in Workers : v # w => worker'[v] = worker[v] /\ task'[v] = task[v]
      /\ w # Gone => \/ worker[w] = "connected" /\ worker'[w] = "working" /\ task'[w] = j
                     \/ worker[w] = "vanished" /\ worker'[w] = "vanished"
                        /\ task'[w] = task[w]
  BY <1>1, <1>4, <1>5 DEF TypeOK, Doings
<1>. HIDE DEF w
<1>8. TypeOK'
  BY <1>1, <1>2, <1>7 DEF TypeOK
<1>9. Unborn'
  BY <1>1, <1>2, <1>6, JobFacts DEF FarmInv, Unborn
<1>10. Outcomes'
  BY <1>1, <1>2, <1>3, JobFacts DEF FarmInv, Outcomes, Alive, w
<1>11. LossesExplained'
  BY <1>1, <1>2, <1>3, FarmAssumption DEF FarmInv, LossesExplained, TypeOK, Jobs
<1>12. ZombiesAnnounced' /\ CleanExit'
  BY <1>1, <1>2 DEF FarmInv, ZombiesAnnounced, CleanExit, Dead
<1>13. Waiting'
  <2>. SUFFICES ASSUME NEW k \in DOMAIN backlog, backlog[k] # Gone
                PROVE  /\ worker'[backlog[k]] \in {"connected", "vanished"}
                       /\ \A l \in DOMAIN backlog : backlog[l] = backlog[k] => l = k
                       /\ \A l \in Jobs : Alive(l)' => child'[l].peer # backlog[k]
    BY <1>1 DEF Waiting
  <2>1. backlog[k] \in Workers
    BY DEF TypeOK
  <2>2. /\ worker[backlog[k]] \in {"connected", "vanished"}
        /\ \A l \in DOMAIN backlog : backlog[l] = backlog[k] => l = k
        /\ \A l \in Jobs : Alive(l) => child[l].peer # backlog[k]
    BY DEF FarmInv, Waiting
  <2>3. backlog[k] # w
    BY <1>1, <2>2 DEF w, Alive
  <2>. QED  BY <1>2, <1>3, <1>7, <2>1, <2>2, <2>3 DEF w
<1>14. Served'
  <2>. SUFFICES ASSUME NEW k \in Jobs, Alive(k)', child'[k].peer # Gone
                PROVE  /\ worker'[child'[k].peer] \in
                            IF child'[k].status = "born" THEN {"connected", "vanished"}
                            ELSE {"working", "vanished"}
                       /\ \A l \in Jobs :
                            Alive(l)' /\ child'[l].peer = child'[k].peer => l = k
    BY DEF Served
  <2>1. \A l \in Jobs : child'[l].peer = child[l].peer
    BY <1>2 DEF w
  <2>2. Alive(k) /\ child[k].peer # Gone /\ child[k].peer \in Workers
    BY <1>3, <2>1, ChildFields
  <2>3. \A l \in Jobs : Alive(l)' /\ child'[l].peer = child'[k].peer => l = k
    BY <1>3, <2>1, <2>2 DEF FarmInv, Served
  <2>4. CASE k = j
    BY <1>2, <1>7, <2>1, <2>2, <2>3, <2>4 DEF w
  <2>5. CASE k # j
    <3>1. child[k].peer # w
      BY <1>1, <2>2, <2>5 DEF FarmInv, Served, Alive, w
    <3>2. worker'[child[k].peer] = worker[child[k].peer]
      BY <1>7, <2>2, <3>1
    <3>. QED  BY <1>2, <2>1, <2>2, <2>3, <2>5, <3>2 DEF FarmInv, Served
  <2>. QED  BY <2>4, <2>5
<1>15. Tasks'
  <2>. SUFFICES ASSUME NEW v \in Workers
                PROVE  IF worker'[v] = "working"
                       THEN /\ task'[v] \in Jobs
                            /\ child'[task'[v]].status = "asked"
                            /\ child'[task'[v]].peer = v
                       ELSE task'[v] = NoJob
    BY DEF Tasks
  <2>1. IF worker[v] = "working"
        THEN /\ task[v] \in Jobs
             /\ child[task[v]].status = "asked"
             /\ child[task[v]].peer = v
        ELSE task[v] = NoJob
    BY DEF FarmInv, Tasks
  <2>2. CASE v = w
    BY <1>2, <1>7, <2>1, <2>2, JobFacts
  <2>3. CASE v # w
    BY <1>1, <1>2, <1>7, <2>1, <2>3
  <2>. QED  BY <2>2, <2>3
<1>. QED
  BY <1>8, <1>9, <1>10, <1>11, <1>12, <1>13, <1>14, <1>15 DEF FarmInv

\* A child that is killed excuses its job, and its client is told.
LEMMA ChildKilledKeepsInv ==
    ASSUME FarmInv, NEW j \in Jobs, ChildKilled(j)
    PROVE  FarmInv'
<1>. DEFINE w == child[j].peer
            doing == IF w # Gone /\ worker[w] # "vanished"
                     THEN [worker EXCEPT ![w] = "eof"] ELSE worker
<1>. TypeOK
  BY DEF FarmInv
<1>1. /\ Alive(j)
      /\ Fault
      /\ child' = [child EXCEPT ![j] = [@ EXCEPT !.status = "killed"]]
      /\ sigchld' = (phase = "serving")
      /\ signalled' = TRUE
      /\ excused' = excused \cup {j}
      /\ UNCHANGED <<i, phase, loop, orphaned, printed>>
      /\ task' = IF w # Gone /\ worker[w] # "vanished"
                 THEN [task EXCEPT ![w] = NoJob] ELSE task
      /\ ReleaseWith(doing)
  BY DEF ChildKilled, ReleaseSocket
<1>2. /\ child' \in [Jobs -> Children]
      /\ child'[j].status = "killed"
      /\ child'[j].peer = child[j].peer
      /\ child'[j].answer = child[j].answer
      /\ \A k \in Jobs : k # j => child'[k] = child[k]
  BY <1>1 DEF TypeOK, Children
<1>3. w \in Workers \cup {Gone}
  BY ChildFields
<1>4. /\ doing \in [Workers -> Doings]
      /\ \A v \in Workers : v # w => doing[v] = worker[v]
      /\ w # Gone => doing[w] = IF worker[w] = "vanished" THEN "vanished" ELSE "eof"
  BY <1>3 DEF TypeOK, Doings
<1>5. /\ task' \in [Workers -> Jobs \cup {NoJob}]
      /\ \A v \in Workers : v # w => task'[v] = task[v]
      /\ w # Gone => task'[w] = NoJob
  <2>1. w # Gone /\ worker[w] = "vanished" => task[w] = NoJob
    BY <1>3 DEF FarmInv, Tasks
  <2>. QED  BY <1>1, <1>3, <2>1 DEF TypeOK
<1>. HIDE DEF doing, w
<1>6. /\ backlog' \in Seq(Workers \cup {Gone})
      /\ backlog' = backlog \/ backlog' = << >>
      /\ worker' \in [Workers -> Doings]
      /\ \A v \in Workers :
            worker'[v] # doing[v] =>
                /\ doing[v] = "connected" /\ worker'[v] = "eof"
                /\ backlog' = << >>
                /\ \E k \in DOMAIN backlog : backlog[k] = v
  BY <1>1, <1>4, Release
<1>7. \A k \in DOMAIN backlog : backlog[k] # Gone => backlog[k] # w
  BY <1>1 DEF FarmInv, Waiting, w
<1>8. i > j /\ printed[j] = 0
  <2>1. child[j].status \in {"born", "asked"}
    BY <1>1 DEF Alive
  <2>2. ~(j >= i)
    BY <2>1 DEF FarmInv, Unborn
  <2>3. printed[j] = 0
    BY <2>1 DEF FarmInv, Outcomes
  <2>. QED  BY <2>2, <2>3, JobFacts DEF TypeOK
<1>9. TypeOK'
  <2>1. faults' \in 0..MaxFaults
    BY <1>1, FaultBound
  <2>2. sigchld' \in BOOLEAN /\ signalled' \in BOOLEAN /\ excused' \subseteq Jobs
    BY <1>1 DEF TypeOK
  <2>3. UNCHANGED <<i, phase, loop, orphaned, printed>>
    BY <1>1
  <2>. QED  BY <1>2, <1>5, <1>6, <2>1, <2>2, <2>3 DEF TypeOK
<1>10. Unborn'
  <2>. SUFFICES ASSUME NEW k \in Jobs, k >= i PROVE child'[k].status = "none"
    BY <1>1 DEF Unborn
  <2>1. k # j
    BY <1>8, JobFacts DEF TypeOK
  <2>. QED  BY <1>2, <2>1 DEF FarmInv, Unborn
<1>11. Outcomes'
  <2>. SUFFICES ASSUME NEW k \in Jobs
                PROVE  /\ child'[k].answer # NoJob =>
                            /\ child'[k].answer = k
                            /\ child'[k].peer = Gone
                            /\ child'[k].status \notin {"none", "born"}
                       /\ printed[k] \in {0, 1}
                       /\ printed[k] = 1 => child'[k].status \in {"exited", "reaped"}
                       /\ Alive(k)' /\ child'[k].peer = Gone
                            /\ child'[k].answer = NoJob => k \in excused'
                       /\ child'[k].status = "killed" => signalled'
    BY <1>1 DEF Outcomes
  <2>1. CASE k = j
    BY <1>1, <1>2, <1>8, <2>1 DEF FarmInv, Outcomes, Alive
  <2>2. CASE k # j
    BY <1>1, <1>2, <2>2 DEF FarmInv, Outcomes, Alive
  <2>. QED  BY <2>1, <2>2
<1>12. LossesExplained'
  BY <1>1, <1>2, FarmAssumption DEF FarmInv, LossesExplained, Alive, TypeOK, Jobs
<1>13. ZombiesAnnounced' /\ CleanExit'
  <2>1. ZombiesAnnounced'
    BY <1>1 DEF ZombiesAnnounced
  <2>2. CleanExit'
    <3>. SUFFICES ASSUME phase = "done", loop, ~orphaned PROVE FALSE
      BY <1>1 DEF CleanExit
    <3>. QED  BY <1>1 DEF FarmInv, CleanExit, Alive
  <2>. QED  BY <2>1, <2>2
<1>14. Waiting'
  <2>. SUFFICES ASSUME backlog' = backlog, NEW k \in DOMAIN backlog, backlog[k] # Gone
                PROVE  /\ worker'[backlog[k]] \in {"connected", "vanished"}
                       /\ \A l \in DOMAIN backlog : backlog[l] = backlog[k] => l = k
                       /\ \A l \in Jobs : Alive(l)' => child'[l].peer # backlog[k]
    BY <1>6 DEF Waiting
  <2>1. backlog[k] \in Workers /\ backlog # << >>
    BY DEF TypeOK
  <2>2. worker'[backlog[k]] = worker[backlog[k]]
    BY <1>4, <1>6, <1>7, <2>1
  <2>. QED  BY <1>2, <2>1, <2>2 DEF FarmInv, Waiting, Alive
<1>15. Served'
  <2>. SUFFICES ASSUME NEW k \in Jobs, Alive(k)', child'[k].peer # Gone
                PROVE  /\ worker'[child'[k].peer] \in
                            IF child'[k].status = "born" THEN {"connected", "vanished"}
                            ELSE {"working", "vanished"}
                       /\ \A l \in Jobs :
                            Alive(l)' /\ child'[l].peer = child'[k].peer => l = k
    BY DEF Served
  <2>1. k # j /\ child'[k] = child[k] /\ Alive(k)
    BY <1>2 DEF Alive
  <2>2. child[k].peer \in Workers
    BY <2>1, ChildFields
  <2>3. child[k].peer # w
    BY <1>1, <2>1 DEF FarmInv, Served, w
  <2>4. worker'[child[k].peer] = worker[child[k].peer]
    BY <1>4, <1>6, <2>1, <2>2, <2>3, JobFacts DEF FarmInv, Waiting
  <2>5. \A l \in Jobs : Alive(l)' => Alive(l) /\ child'[l] = child[l]
    BY <1>2 DEF Alive
  <2>. QED  BY <2>1, <2>4, <2>5 DEF FarmInv, Served
<1>16. Tasks'
  <2>. SUFFICES ASSUME NEW v \in Workers
                PROVE  IF worker'[v] = "working"
                       THEN /\ task'[v] \in Jobs
                            /\ child'[task'[v]].status = "asked"
                            /\ child'[task'[v]].peer = v
                       ELSE task'[v] = NoJob
    BY DEF Tasks
  <2>1. CASE v = w
    BY <1>4, <1>5, <1>6, <2>1, JobFacts
  <2>2. CASE v # w
    <3>1. /\ task'[v] = task[v]
          /\ worker'[v] = "working" <=> worker[v] = "working"
      BY <1>4, <1>5, <1>6, <2>2
    <3>2. IF worker[v] = "working"
          THEN /\ task[v] \in Jobs
               /\ child[task[v]].status = "asked"
               /\ child[task[v]].peer = v
          ELSE task[v] = NoJob
      BY DEF FarmInv, Tasks
    <3>3. worker[v] = "working" => child'[task[v]] = child[task[v]]
      BY <1>2, <2>2, <3>2 DEF w
    <3>. QED  BY <3>1, <3>2, <3>3
  <2>. QED  BY <2>1, <2>2
<1>. QED
  BY <1>9, <1>10, <1>11, <1>12, <1>13, <1>14, <1>15, <1>16 DEF FarmInv

--------------------------------------------------------------------------------
(* Steps of the server and the clients *)

\* The connection at the head of the backlog passes to a child, or is lost with
\* the fork.
LEMMA ServeKeepsInv ==
    ASSUME FarmInv, Serve
    PROVE  FarmInv'
<1>. DEFINE peer == Head(backlog)
<1>. TypeOK
  BY DEF FarmInv
<1>1. /\ phase = "serving" /\ i < NumJobs /\ backlog # << >>
      /\ i' = i + 1
      /\ backlog' = Tail(backlog)
      /\ UNCHANGED <<phase, loop, orphaned, sigchld, task, printed, signalled>>
  BY DEF Serve
<1>2. i \in Jobs /\ i \in Nat
  BY <1>1, FarmAssumption DEF TypeOK, Jobs
<1>3. child[i].status = "none" /\ child[i].answer = NoJob
  BY <1>2, JobFacts DEF FarmInv, Unborn, Outcomes
<1>4. /\ peer \in Workers \cup {Gone}
      /\ backlog' \in Seq(Workers \cup {Gone})
      /\ peer = backlog[1]
      /\ 1 \in DOMAIN backlog
      /\ \A k \in DOMAIN backlog' :
            k + 1 \in DOMAIN backlog /\ backlog'[k] = backlog[k + 1] /\ k \in Nat /\ k >= 1
  BY <1>1 DEF TypeOK
<1>. HIDE DEF peer
<1>5. peer # Gone =>
        /\ worker[peer] \in {"connected", "vanished"}
        /\ \A k \in DOMAIN backlog' : backlog'[k] # peer
        /\ \A j \in Jobs : Alive(j) => child[j].peer # peer
  <2>. SUFFICES ASSUME peer # Gone
                PROVE  /\ worker[peer] \in {"connected", "vanished"}
                       /\ \A k \in DOMAIN backlog' : backlog'[k] # peer
                       /\ \A j \in Jobs : Alive(j) => child[j].peer # peer
    OBVIOUS
  <2>1. /\ worker[peer] \in {"connected", "vanished"}
        /\ \A l \in DOMAIN backlog : backlog[l] = backlog[1] => l = 1
        /\ \A j \in Jobs : Alive(j) => child[j].peer # peer
    BY <1>4 DEF FarmInv, Waiting
  <2>. QED  BY <1>4, <2>1
<1>6. \A k \in DOMAIN backlog' : backlog'[k] # Gone =>
        /\ worker[backlog'[k]] \in {"connected", "vanished"}
        /\ \A l \in DOMAIN backlog' : backlog'[l] = backlog'[k] => l = k
        /\ \A j \in Jobs : Alive(j) => child[j].peer # backlog'[k]
  <2>. SUFFICES ASSUME NEW k \in DOMAIN backlog', backlog'[k] # Gone
                PROVE  /\ worker[backlog'[k]] \in {"connected", "vanished"}
                       /\ \A l \in DOMAIN backlog' : backlog'[l] = backlog'[k] => l = k
                       /\ \A j \in Jobs : Alive(j) => child[j].peer # backlog'[k]
    OBVIOUS
  <2>1. k + 1 \in DOMAIN backlog /\ backlog'[k] = backlog[k + 1] /\ k \in Nat
    BY <1>4
  <2>2. /\ worker[backlog[k + 1]] \in {"connected", "vanished"}
        /\ \A l \in DOMAIN backlog : backlog[l] = backlog[k + 1] => l = k + 1
        /\ \A j \in Jobs : Alive(j) => child[j].peer # backlog[k + 1]
    BY <2>1 DEF FarmInv, Waiting
  <2>3. ASSUME NEW l \in DOMAIN backlog', backlog'[l] = backlog'[k] PROVE l = k
    <3>1. l + 1 \in DOMAIN backlog /\ backlog'[l] = backlog[l + 1] /\ l \in Nat
      BY <1>4
    <3>. QED  BY <2>1, <2>2, <2>3, <3>1
  <2>. QED  BY <2>1, <2>2, <2>3
<1>7. CASE /\ child' = [child EXCEPT ![i].status = "born", ![i].peer = peer]
           /\ excused' = IF peer = Gone THEN excused \cup {i} ELSE excused
           /\ UNCHANGED <<worker, faults>>
  <2>1. /\ child' \in [Jobs -> Children]
        /\ child'[i].status = "born"
        /\ child'[i].peer = peer
        /\ child'[i].answer = NoJob
        /\ \A k \in Jobs : k # i => child'[k] = child[k]
    BY <1>2, <1>3, <1>4, <1>7 DEF TypeOK, Children
  <2>2. TypeOK'
    BY <1>1, <1>2, <1>4, <1>7, <2>1, FarmAssumption DEF TypeOK
  <2>3. Unborn'
    BY <1>1, <1>2, <2>1, JobFacts DEF FarmInv, Unborn
  <2>4. Outcomes'
    <3>. SUFFICES ASSUME NEW k \in Jobs
                  PROVE  /\ child'[k].answer # NoJob =>
                              /\ child'[k].answer = k
                              /\ child'[k].peer = Gone
                              /\ child'[k].status \notin {"none", "born"}
                         /\ printed[k] \in {0, 1}
                         /\ printed[k] = 1 => child'[k].status \in {"exited", "reaped"}
                         /\ Alive(k)' /\ child'[k].peer = Gone
                              /\ child'[k].answer = NoJob => k \in excused'
                         /\ child'[k].status = "killed" => signalled
      BY <1>1 DEF Outcomes
    <3>1. CASE k = i
      BY <1>2, <1>3, <1>7, <2>1, <3>1 DEF FarmInv, Outcomes, Alive
    <3>2. CASE k # i
      BY <1>7, <2>1, <3>2 DEF FarmInv, Outcomes, Alive
    <3>. QED  BY <3>1, <3>2
  <2>5. LossesExplained'
    <3>. SUFFICES ASSUME NEW k \in 0..i, ~Alive(k)'
                  PROVE  printed[k] = 1 \/ k \in excused'
      BY <1>1, <1>2 DEF LossesExplained
    <3>1. k # i
      BY <2>1 DEF Alive
    <3>2. k \in 0..(i - 1) /\ k \in Jobs
      BY <1>2, <3>1, FarmAssumption DEF Jobs
    <3>. QED  BY <1>7, <2>1, <3>1, <3>2 DEF FarmInv, LossesExplained, Alive
  <2>6. ZombiesAnnounced' /\ CleanExit'
    BY <1>1, <2>1 DEF FarmInv, ZombiesAnnounced, CleanExit, Dead
  <2>7. Waiting'
    BY <1>5, <1>6, <1>7, <2>1 DEF Waiting, Alive
  <2>8. Served'
    <3>. SUFFICES ASSUME NEW k \in Jobs, Alive(k)', child'[k].peer # Gone
                  PROVE  /\ worker[child'[k].peer] \in
                              IF child'[k].status = "born" THEN {"connected", "vanished"}
                              ELSE {"working", "vanished"}
                         /\ \A l \in Jobs :
                              Alive(l)' /\ child'[l].peer = child'[k].peer => l = k
      BY <1>7 DEF Served
    <3>1. CASE k = i
      BY <1>5, <2>1, <3>1 DEF Alive
    <3>2. CASE k # i
      <4>1. Alive(k) /\ child'[k] = child[k]
        BY <2>1, <3>2 DEF Alive
      <4>2. child[k].peer # peer
        BY <1>5, <4>1
      <4>. QED  BY <2>1, <4>1, <4>2 DEF FarmInv, Served, Alive
    <3>. QED  BY <3>1, <3>2
  <2>9. Tasks'
    <3>. SUFFICES ASSUME NEW v \in Workers
                  PROVE  IF worker[v] = "working"
                         THEN /\ task[v] \in Jobs
                              /\ child'[task[v]].status = "asked"
                              /\ child'[task[v]].peer = v
                         ELSE task[v] = NoJob
      BY <1>1, <1>7 DEF Tasks
    <3>. QED  BY <1>3, <2>1 DEF FarmInv, Tasks
  <2>. QED  BY <2>2, <2>3, <2>4, <2>5, <2>6, <2>7, <2>8, <2>9 DEF FarmInv
<1>8. CASE /\ Fault
           /\ excused' = excused \cup {i}
           /\ worker' = [w \in Workers |->
                  IF w = peer /\ worker[w] = "connected" THEN "eof" ELSE worker[w]]
           /\ UNCHANGED child
  <2>1. /\ worker' \in [Workers -> Doings]
        /\ \A w \in Workers : w # peer => worker'[w] = worker[w]
        /\ \A w \in Workers : worker'[w] = "working" <=> worker[w] = "working"
    BY <1>8 DEF TypeOK, Doings
  <2>2. TypeOK'
    <3>1. faults' \in 0..MaxFaults
      BY <1>8, FaultBound
    <3>2. i' \in 0..NumJobs
      BY <1>1, <1>2, FarmAssumption
    <3>3. excused' \subseteq Jobs /\ child' = child
      BY <1>2, <1>8 DEF TypeOK
    <3>4. UNCHANGED <<phase, loop, orphaned, sigchld, task, printed, signalled>>
      BY <1>1
    <3>. QED  BY <1>4, <2>1, <3>1, <3>2, <3>3, <3>4 DEF TypeOK
  <2>3. Unborn'
    <3>. SUFFICES ASSUME NEW k \in Jobs, k >= i + 1 PROVE child[k].status = "none"
      BY <1>1, <1>8 DEF Unborn
    <3>. QED  BY <1>2, JobFacts DEF FarmInv, Unborn
  <2>4. Outcomes'
    BY <1>1, <1>8 DEF FarmInv, Outcomes, Alive
  <2>5. LossesExplained'
    BY <1>1, <1>2, <1>8 DEF FarmInv, LossesExplained, Alive
  <2>6. ZombiesAnnounced' /\ CleanExit'
    BY <1>1, <1>8 DEF FarmInv, ZombiesAnnounced, CleanExit, Dead
  <2>7. Waiting'
    <3>. SUFFICES ASSUME NEW k \in DOMAIN backlog', backlog'[k] # Gone
                  PROVE  /\ worker'[backlog'[k]] \in {"connected", "vanished"}
                         /\ \A l \in DOMAIN backlog' : backlog'[l] = backlog'[k] => l = k
                         /\ \A j \in Jobs : Alive(j)' => child'[j].peer # backlog'[k]
      BY DEF Waiting
    <3>1. backlog'[k] \in Workers /\ backlog'[k] # peer
      BY <1>4, <1>5
    <3>. QED  BY <1>6, <1>8, <2>1, <3>1 DEF Alive
  <2>8. Served'
    <3>. SUFFICES ASSUME NEW k \in Jobs, Alive(k), child[k].peer # Gone
                  PROVE  worker'[child[k].peer] = worker[child[k].peer]
      BY <1>8 DEF FarmInv, Served, Alive
    <3>. QED  BY <1>5, <2>1, ChildFields
  <2>9. Tasks'
    BY <1>1, <1>8, <2>1 DEF FarmInv, Tasks
  <2>. QED  BY <2>2, <2>3, <2>4, <2>5, <2>6, <2>7, <2>8, <2>9 DEF FarmInv
<1>. QED  BY <1>7, <1>8 DEF Serve, peer

\* A client with no business has no connection.
LEMMA Unconnected ==
    ASSUME FarmInv, NEW w \in Workers, worker[w] \in {"idle", "eof"}
    PROVE  /\ \A k \in DOMAIN backlog : backlog[k] # w
           /\ \A j \in Jobs : Alive(j) => child[j].peer # w
           /\ task[w] = NoJob
<1>1. \A k \in DOMAIN backlog : backlog[k] # w
  BY JobFacts DEF FarmInv, Waiting
<1>2. \A j \in Jobs : Alive(j) => child[j].peer # w
  <2>. SUFFICES ASSUME NEW j \in Jobs, Alive(j), child[j].peer = w PROVE FALSE
    OBVIOUS
  <2>1. worker[w] \in {"connected", "working", "vanished"}
    BY JobFacts DEF FarmInv, Served
  <2>. QED  BY <2>1
<1>3. task[w] = NoJob
  BY DEF FarmInv, Tasks
<1>. QED  BY <1>1, <1>2, <1>3

\* Only the clients change, and none that a child or the backlog knows.
LEMMA EofKeepsInv ==
    ASSUME FarmInv, NEW w \in Workers, Eof(w)
    PROVE  FarmInv'
<1>1. /\ worker[w] = "eof"
      /\ worker' = [worker EXCEPT ![w] = "idle"]
      /\ UNCHANGED <<i, phase, loop, orphaned, sigchld, child, backlog, task,
                     printed, faults, excused, signalled>>
  BY DEF Eof
<1>2. /\ \A k \in DOMAIN backlog : backlog[k] # w
      /\ \A j \in Jobs : Alive(j) => child[j].peer # w
      /\ task[w] = NoJob
  BY <1>1, Unconnected
<1>3. /\ worker' \in [Workers -> Doings]
      /\ worker'[w] = "idle"
      /\ \A v \in Workers : v # w => worker'[v] = worker[v]
  BY <1>1 DEF FarmInv, TypeOK, Doings
<1>4. TypeOK' /\ Unborn' /\ Outcomes' /\ LossesExplained' /\ ZombiesAnnounced' /\ CleanExit'
  BY <1>1, <1>3 DEF FarmInv, TypeOK, Unborn, Outcomes, LossesExplained,
                    ZombiesAnnounced, CleanExit, Alive, Dead
<1>5. Waiting'
  <2>. SUFFICES ASSUME NEW k \in DOMAIN backlog, backlog[k] # Gone
                PROVE  worker'[backlog[k]] = worker[backlog[k]]
    BY <1>1 DEF FarmInv, Waiting, Alive
  <2>1. backlog[k] \in Workers
    BY DEF FarmInv, TypeOK
  <2>. QED  BY <1>2, <1>3, <2>1
<1>6. Served'
  <2>. SUFFICES ASSUME NEW j \in Jobs, Alive(j), child[j].peer # Gone
                PROVE  worker'[child[j].peer] = worker[child[j].peer]
    BY <1>1 DEF FarmInv, Served, Alive
  <2>. QED  BY <1>2, <1>3, ChildFields DEF FarmInv
<1>7. Tasks'
  BY <1>1, <1>2, <1>3 DEF FarmInv, Tasks
<1>. QED  BY <1>4, <1>5, <1>6, <1>7 DEF FarmInv

LEMMA ConnectKeepsInv ==
    ASSUME FarmInv, NEW w \in Workers, Connect(w)
    PROVE  FarmInv'
<1>1. /\ worker[w] = "idle"
      /\ worker' = [worker EXCEPT ![w] = "connected"]
      /\ backlog' = Append(backlog, w)
      /\ UNCHANGED <<i, phase, loop, orphaned, sigchld, child, task, printed,
                     faults, excused, signalled>>
  BY DEF Connect
<1>2. /\ \A k \in DOMAIN backlog : backlog[k] # w
      /\ \A j \in Jobs : Alive(j) => child[j].peer # w
      /\ task[w] = NoJob
  BY <1>1, Unconnected
<1>3. /\ worker' \in [Workers -> Doings]
      /\ worker'[w] = "connected"
      /\ \A v \in Workers : v # w => worker'[v] = worker[v]
  BY <1>1 DEF FarmInv, TypeOK, Doings
<1>4. /\ backlog' \in Seq(Workers \cup {Gone})
      /\ Len(backlog') = Len(backlog) + 1
      /\ \A k \in DOMAIN backlog' :
            IF k \in DOMAIN backlog THEN backlog'[k] = backlog[k]
            ELSE backlog'[k] = w /\ k = Len(backlog')
  BY <1>1 DEF FarmInv, TypeOK
<1>5. TypeOK' /\ Unborn' /\ Outcomes' /\ LossesExplained' /\ ZombiesAnnounced' /\ CleanExit'
  BY <1>1, <1>3, <1>4 DEF FarmInv, TypeOK, Unborn, Outcomes, LossesExplained,
                          ZombiesAnnounced, CleanExit, Alive, Dead
<1>6. Waiting'
  <2>. SUFFICES ASSUME NEW k \in DOMAIN backlog', backlog'[k] # Gone
                PROVE  /\ worker'[backlog'[k]] \in {"connected", "vanished"}
                       /\ \A l \in DOMAIN backlog' : backlog'[l] = backlog'[k] => l = k
                       /\ \A j \in Jobs : Alive(j) => child[j].peer # backlog'[k]
    BY <1>1 DEF Waiting, Alive
  <2>1. CASE k \in DOMAIN backlog
    <3>1. backlog'[k] = backlog[k] /\ backlog[k] \in Workers /\ backlog[k] # w
      BY <1>2, <1>4, <2>1 DEF FarmInv, TypeOK
    <3>2. /\ worker[backlog[k]] \in {"connected", "vanished"}
          /\ \A l \in DOMAIN backlog : backlog[l] = backlog[k] => l = k
          /\ \A j \in Jobs : Alive(j) => child[j].peer # backlog[k]
      BY <2>1, <3>1 DEF FarmInv, Waiting
    <3>. QED  BY <1>3, <1>4, <3>1, <3>2
  <2>2. CASE k \notin DOMAIN backlog
    <3>1. backlog'[k] = w /\ k = Len(backlog')
      BY <1>4, <2>2
    <3>. QED  BY <1>2, <1>3, <1>4, <3>1
  <2>. QED  BY <2>1, <2>2
<1>7. Served'
  <2>. SUFFICES ASSUME NEW j \in Jobs, Alive(j), child[j].peer # Gone
                PROVE  worker'[child[j].peer] = worker[child[j].peer]
    BY <1>1 DEF FarmInv, Served, Alive
  <2>. QED  BY <1>2, <1>3, ChildFields DEF FarmInv
<1>8. Tasks'
  BY <1>1, <1>2, <1>3 DEF FarmInv, Tasks
<1>. QED  BY <1>5, <1>6, <1>7, <1>8 DEF FarmInv

\* Nobody is told: what the others wait for stays as it is.
LEMMA VanishKeepsInv ==
    ASSUME FarmInv, NEW w \in Workers, Vanish(w)
    PROVE  FarmInv'
<1>1. /\ Fault
      /\ worker' = [worker EXCEPT ![w] = "vanished"]
      /\ task' = [task EXCEPT ![w] = NoJob]
      /\ UNCHANGED <<i, phase, loop, orphaned, sigchld, child, backlog, printed,
                     excused, signalled>>
  BY DEF Vanish
<1>2. faults' \in 0..MaxFaults
  BY <1>1, FaultBound DEF FarmInv
<1>3. /\ worker' \in [Workers -> Doings]
      /\ worker'[w] = "vanished"
      /\ \A v \in Workers : v # w => worker'[v] = worker[v]
      /\ task' \in [Workers -> Jobs \cup {NoJob}]
      /\ task'[w] = NoJob
      /\ \A v \in Workers : v # w => task'[v] = task[v]
  BY <1>1 DEF FarmInv, TypeOK, Doings
<1>4. TypeOK' /\ Unborn' /\ Outcomes' /\ LossesExplained' /\ ZombiesAnnounced' /\ CleanExit'
  BY <1>1, <1>2, <1>3 DEF FarmInv, TypeOK, Unborn, Outcomes, LossesExplained,
                          ZombiesAnnounced, CleanExit, Alive, Dead
<1>5. Waiting'
  <2>. SUFFICES ASSUME NEW k \in DOMAIN backlog, backlog[k] # Gone
                PROVE  worker'[backlog[k]] \in {worker[backlog[k]], "vanished"}
    BY <1>1 DEF FarmInv, Waiting, Alive
  <2>1. backlog[k] \in Workers
    BY DEF FarmInv, TypeOK
  <2>. QED  BY <1>3, <2>1
<1>6. Served'
  <2>. SUFFICES ASSUME NEW j \in Jobs, Alive(j), child[j].peer # Gone
                PROVE  worker'[child[j].peer] \in {worker[child[j].peer], "vanished"}
    BY <1>1 DEF FarmInv, Served, Alive
  <2>. QED  BY <1>3, ChildFields DEF FarmInv
<1>7. Tasks'
  BY <1>1, <1>3 DEF FarmInv, Tasks
<1>. QED  BY <1>4, <1>5, <1>6, <1>7 DEF FarmInv

\* What w does when it closes its connection: its end of it reads as closed,
\* wherever the other end is, and w starts anew.
Parted(w) ==
    /\ child' \in [Jobs -> Children]
    /\ \A j \in Jobs :
        /\ child'[j].status = child[j].status
        /\ IF j \in Ends(w) THEN child'[j].peer = Gone ELSE child'[j] = child[j]
    /\ backlog' \in Seq(Workers \cup {Gone})
    /\ DOMAIN backlog' = DOMAIN backlog
    /\ \A k \in DOMAIN backlog :
        backlog'[k] = IF backlog[k] = w THEN Gone ELSE backlog[k]
    /\ worker' \in [Workers -> Doings]
    /\ worker'[w] = "idle"
    /\ \A v \in Workers : v # w => worker'[v] = worker[v]
    /\ task' \in [Workers -> Jobs \cup {NoJob}]
    /\ task'[w] = NoJob
    /\ \A v \in Workers : v # w => task'[v] = task[v]

LEMMA PartingKeepsConnections ==
    ASSUME FarmInv, NEW w \in Workers, Parted(w)
    PROVE  (Waiting /\ Served /\ Tasks)'
<1>1. \A j \in Jobs : Alive(j)' <=> Alive(j)
  BY DEF Parted, Alive
<1>2. \A j \in Jobs : Alive(j) /\ child'[j].peer # Gone
        => child[j].peer # w /\ child'[j] = child[j]
  BY DEF Parted, Ends
<1>3. Waiting'
  <2>. SUFFICES ASSUME NEW k \in DOMAIN backlog', backlog'[k] # Gone
                PROVE  /\ worker'[backlog'[k]] \in {"connected", "vanished"}
                       /\ \A l \in DOMAIN backlog' : backlog'[l] = backlog'[k] => l = k
                       /\ \A j \in Jobs : Alive(j)' => child'[j].peer # backlog'[k]
    BY DEF Waiting
  <2>1. /\ k \in DOMAIN backlog
        /\ backlog[k] # w
        /\ backlog'[k] = backlog[k]
        /\ backlog[k] \in Workers
    BY DEF Parted, FarmInv, TypeOK
  <2>2. /\ worker[backlog[k]] \in {"connected", "vanished"}
        /\ \A l \in DOMAIN backlog : backlog[l] = backlog[k] => l = k
        /\ \A j \in Jobs : Alive(j) => child[j].peer # backlog[k]
    BY <2>1 DEF FarmInv, Waiting
  <2>3. worker'[backlog'[k]] = worker[backlog[k]]
    BY <2>1 DEF Parted
  <2>4. \A l \in DOMAIN backlog' : backlog'[l] = backlog'[k] => l = k
    BY <2>1, <2>2, JobFacts DEF Parted
  <2>5. \A j \in Jobs : Alive(j)' => child'[j].peer # backlog'[k]
    BY <1>1, <1>2, <2>1, <2>2
  <2>. QED  BY <2>2, <2>3, <2>4, <2>5
<1>4. Served'
  <2>. SUFFICES ASSUME NEW j \in Jobs, Alive(j)', child'[j].peer # Gone
                PROVE  /\ worker'[child'[j].peer] \in
                            IF child'[j].status = "born" THEN {"connected", "vanished"}
                            ELSE {"working", "vanished"}
                       /\ \A l \in Jobs :
                            Alive(l)' /\ child'[l].peer = child'[j].peer => l = j
    BY DEF Served
  <2>1. Alive(j) /\ child[j].peer # w /\ child'[j] = child[j] /\ child[j].peer # Gone
    BY <1>1, <1>2
  <2>2. child[j].peer \in Workers
    BY <2>1, ChildFields DEF FarmInv
  <2>3. worker'[child[j].peer] = worker[child[j].peer]
    BY <2>1, <2>2 DEF Parted
  <2>4. \A l \in Jobs : Alive(l)' /\ child'[l].peer = child[j].peer
            => Alive(l) /\ child[l].peer = child[j].peer
    BY <1>1, <1>2, <2>1
  <2>. QED  BY <2>1, <2>3, <2>4 DEF FarmInv, Served
<1>5. Tasks'
  <2>. SUFFICES ASSUME NEW v \in Workers
                PROVE  IF worker'[v] = "working"
                       THEN /\ task'[v] \in Jobs
                            /\ child'[task'[v]].status = "asked"
                            /\ child'[task'[v]].peer = v
                       ELSE task'[v] = NoJob
    BY DEF Tasks
  <2>1. CASE v = w
    BY <2>1 DEF Parted
  <2>2. CASE v # w
    <3>1. IF worker[v] = "working"
          THEN /\ task[v] \in Jobs
               /\ child[task[v]].status = "asked"
               /\ child[task[v]].peer = v
          ELSE task[v] = NoJob
      BY DEF FarmInv, Tasks
    <3>2. worker[v] = "working" => child'[task[v]] = child[task[v]]
      BY <2>2, <3>1 DEF Parted, Ends
    <3>. QED  BY <2>2, <3>1, <3>2 DEF Parted
  <2>. QED  BY <2>1, <2>2
<1>. QED  BY <1>3, <1>4, <1>5

\* The result goes to the child whose job it is, and to no other.
LEMMA AnswerKeepsInv ==
    ASSUME FarmInv, NEW w \in Workers, Answer(w)
    PROVE  FarmInv'
<1>. TypeOK
  BY DEF FarmInv
<1>1. /\ worker[w] = "working"
      /\ child' = [j \in Jobs |-> IF j \in Ends(w)
                      THEN [child[j] EXCEPT !.answer = task[w], !.peer = Gone]
                      ELSE child[j]]
      /\ worker' = [worker EXCEPT ![w] = "idle"]
      /\ task' = [task EXCEPT ![w] = NoJob]
      /\ UNCHANGED <<i, phase, loop, orphaned, sigchld, backlog, printed, faults,
                     excused, signalled>>
  BY DEF Answer
<1>2. /\ task[w] \in Jobs
      /\ child[task[w]].status = "asked"
      /\ child[task[w]].peer = w
  BY <1>1 DEF FarmInv, Tasks
<1>3. \A j \in Ends(w) : j = task[w]
  BY <1>2, JobFacts DEF FarmInv, Served, Ends, Alive
<1>4. \A j \in Jobs :
        LET told == [child[j] EXCEPT !.answer = task[w], !.peer = Gone]
        IN  /\ told \in Children
            /\ told.status = child[j].status
            /\ told.peer = Gone
            /\ told.answer = task[w]
  BY <1>2 DEF TypeOK, Children
<1>5. /\ child' \in [Jobs -> Children]
      /\ \A j \in Jobs :
            IF j \in Ends(w)
            THEN /\ child'[j].status = child[j].status
                 /\ child'[j].peer = Gone
                 /\ child'[j].answer = j
            ELSE child'[j] = child[j]
  <2>1. \A j \in Jobs : child[j] \in Children
    BY DEF TypeOK
  <2>. QED  BY <1>1, <1>3, <1>4, <2>1
<1>6. Parted(w)
  <2>1. \A k \in DOMAIN backlog : backlog[k] # w
    BY <1>1, JobFacts DEF FarmInv, Waiting
  <2>. QED  BY <1>1, <1>5, <2>1 DEF Parted, TypeOK, Doings
<1>7. (Waiting /\ Served /\ Tasks)'
  BY <1>6, PartingKeepsConnections
<1>8. TypeOK'
  BY <1>1, <1>6 DEF TypeOK, Parted
<1>9. \A j \in Jobs : child'[j].status = child[j].status
  BY <1>5
<1>10. Unborn' /\ LossesExplained' /\ ZombiesAnnounced' /\ CleanExit'
  <2>1. Unborn'
    BY <1>1, <1>9 DEF FarmInv, Unborn
  <2>2. LossesExplained'
    <3>1. 0..(i - 1) \subseteq Jobs
      BY FarmAssumption DEF TypeOK, Jobs
    <3>. QED  BY <1>1, <1>9, <3>1 DEF FarmInv, LossesExplained, Alive
  <2>3. ZombiesAnnounced' /\ CleanExit'
    BY <1>1, <1>9 DEF FarmInv, ZombiesAnnounced, CleanExit, Dead
  <2>. QED  BY <2>1, <2>2, <2>3
<1>11. Outcomes'
  <2>. SUFFICES ASSUME NEW j \in Jobs
                PROVE  /\ child'[j].answer # NoJob =>
                            /\ child'[j].answer = j
                            /\ child'[j].peer = Gone
                            /\ child'[j].status \notin {"none", "born"}
                       /\ printed[j] \in {0, 1}
                       /\ printed[j] = 1 => child'[j].status \in {"exited", "reaped"}
                       /\ Alive(j)' /\ child'[j].peer = Gone
                            /\ child'[j].answer = NoJob => j \in excused
                       /\ child'[j].status = "killed" => signalled
    BY <1>1 DEF Outcomes
  <2>1. CASE j \in Ends(w)
    <3>1. child[j].status = "asked"
      BY <1>2, <1>3, <2>1
    <3>2. child'[j].status = "asked" /\ child'[j].peer = Gone /\ child'[j].answer = j
      BY <1>5, <2>1, <3>1
    <3>3. printed[j] \in {0, 1} /\ printed[j] # 1
      BY <3>1 DEF FarmInv, Outcomes
    <3>. QED  BY <3>2, <3>3, JobFacts
  <2>2. CASE j \notin Ends(w)
    BY <1>5, <2>2 DEF FarmInv, Outcomes, Alive
  <2>. QED  BY <2>1, <2>2
<1>. QED  BY <1>7, <1>8, <1>10, <1>11 DEF FarmInv

\* The client's death excuses the job of the child that waits for it.
LEMMA CrashKeepsInv ==
    ASSUME FarmInv, NEW w \in Workers, Crash(w)
    PROVE  FarmInv'
<1>. TypeOK
  BY DEF FarmInv
<1>1. /\ Fault
      /\ worker' = [worker EXCEPT ![w] = "idle"]
      /\ task' = [task EXCEPT ![w] = NoJob]
      /\ backlog' = [k \in DOMAIN backlog |-> IF backlog[k] = w THEN Gone ELSE backlog[k]]
      /\ child' = [j \in Jobs |-> IF j \in Ends(w) THEN [child[j] EXCEPT !.peer = Gone]
                                  ELSE child[j]]
      /\ excused' = excused \cup Ends(w)
      /\ UNCHANGED <<i, phase, loop, orphaned, sigchld, printed, signalled>>
  BY DEF Crash
<1>2. \A j \in Jobs : child[j] \in Children
  BY DEF TypeOK
<1>3. \A j \in Jobs :
        LET cut == [child[j] EXCEPT !.peer = Gone]
        IN  /\ cut \in Children
            /\ cut.status = child[j].status
            /\ cut.peer = Gone
            /\ cut.answer = child[j].answer
  BY <1>2 DEF Children
<1>4. /\ child' \in [Jobs -> Children]
      /\ \A j \in Jobs :
            IF j \in Ends(w)
            THEN /\ child'[j].status = child[j].status
                 /\ child'[j].peer = Gone
                 /\ child'[j].answer = child[j].answer
            ELSE child'[j] = child[j]
  BY <1>1, <1>2, <1>3
<1>5. /\ backlog' \in Seq(Workers \cup {Gone})
      /\ DOMAIN backlog' = DOMAIN backlog
      /\ \A k \in DOMAIN backlog :
            backlog'[k] = IF backlog[k] = w THEN Gone ELSE backlog[k]
  <2>1. /\ backlog \in Seq(Workers \cup {Gone})
        /\ DOMAIN backlog = 1..Len(backlog)
        /\ Len(backlog) \in Nat
    BY DEF TypeOK
  <2>2. \A k \in 1..Len(backlog) :
            (IF backlog[k] = w THEN Gone ELSE backlog[k]) \in Workers \cup {Gone}
    BY <2>1
  <2>. QED  BY <1>1, <2>1, <2>2
<1>6. Parted(w)
  BY <1>1, <1>4, <1>5 DEF Parted, TypeOK, Doings
<1>7. (Waiting /\ Served /\ Tasks)'
  BY <1>6, PartingKeepsConnections
<1>8. TypeOK'
  <2>1. faults' \in 0..MaxFaults
    BY <1>1, FaultBound
  <2>2. excused' \subseteq Jobs
    BY <1>1 DEF TypeOK, Ends
  <2>3. UNCHANGED <<i, phase, loop, orphaned, sigchld, printed, signalled>>
    BY <1>1
  <2>. QED  BY <1>6, <2>1, <2>2, <2>3 DEF TypeOK, Parted
<1>9. \A j \in Jobs : child'[j].status = child[j].status
  BY <1>4
<1>10. Unborn' /\ LossesExplained' /\ ZombiesAnnounced' /\ CleanExit'
  <2>1. Unborn'
    BY <1>1, <1>9 DEF FarmInv, Unborn
  <2>2. LossesExplained'
    <3>1. 0..(i - 1) \subseteq Jobs
      BY FarmAssumption DEF TypeOK, Jobs
    <3>. QED  BY <1>1, <1>9, <3>1 DEF FarmInv, LossesExplained, Alive
  <2>3. ZombiesAnnounced' /\ CleanExit'
    BY <1>1, <1>9 DEF FarmInv, ZombiesAnnounced, CleanExit, Dead
  <2>. QED  BY <2>1, <2>2, <2>3
<1>11. Outcomes'
  <2>. SUFFICES ASSUME NEW j \in Jobs
                PROVE  /\ child'[j].answer # NoJob =>
                            /\ child'[j].answer = j
                            /\ child'[j].peer = Gone
                            /\ child'[j].status \notin {"none", "born"}
                       /\ printed[j] \in {0, 1}
                       /\ printed[j] = 1 => child'[j].status \in {"exited", "reaped"}
                       /\ Alive(j)' /\ child'[j].peer = Gone
                            /\ child'[j].answer = NoJob => j \in excused'
                       /\ child'[j].status = "killed" => signalled
    BY <1>1 DEF Outcomes
  <2>1. CASE j \in Ends(w)
    BY <1>1, <1>4, <2>1 DEF FarmInv, Outcomes, Alive
  <2>2. CASE j \notin Ends(w)
    BY <1>1, <1>4, <2>2 DEF FarmInv, Outcomes, Alive
  <2>. QED  BY <2>1, <2>2
<1>. QED  BY <1>7, <1>8, <1>10, <1>11 DEF FarmInv

--------------------------------------------------------------------------------
(* The invariant, and what it says *)

LEMMA FarmInvNext == FarmInv /\ [Next]_vars => FarmInv'
<1>. SUFFICES ASSUME FarmInv, [Next]_vars PROVE FarmInv'
  OBVIOUS
<1>1. CASE ServerStep
  BY <1>1, ServeKeepsInv, ReapKeepsInv, LoopEndsKeepsInv, CheckLoopKeepsInv,
     AwaitKeepsInv DEF ServerStep
<1>2. CASE Terminate
  BY <1>2, TerminateKeepsInv
<1>3. CASE ParentExits
  BY <1>3, ParentExitsKeepsInv
<1>4. CASE \E j \in Jobs : ChildStep(j) \/ ChildKilled(j)
  <2>. PICK j \in Jobs : ChildStep(j) \/ ChildKilled(j)
    BY <1>4
  <2>1. CASE ChildPrint(j)
    BY <2>1, ChildDiesKeepsInv, ChildAsksKeepsInv
  <2>2. CASE ChildRead(j)
    BY <2>2, ChildReadKeepsInv
  <2>3. CASE ChildKilled(j)
    BY <2>3, ChildKilledKeepsInv
  <2>. QED  BY <2>1, <2>2, <2>3 DEF ChildStep
<1>5. CASE \E w \in Workers : ClientStep(w) \/ Crash(w) \/ Vanish(w)
  <2>. PICK w \in Workers : ClientStep(w) \/ Crash(w) \/ Vanish(w)
    BY <1>5
  <2>1. CASE Connect(w)
    BY <2>1, ConnectKeepsInv
  <2>2. CASE Answer(w)
    BY <2>2, AnswerKeepsInv
  <2>3. CASE Eof(w)
    BY <2>3, EofKeepsInv
  <2>4. CASE Crash(w)
    BY <2>4, CrashKeepsInv
  <2>5. CASE Vanish(w)
    BY <2>5, VanishKeepsInv
  <2>. QED  BY <2>1, <2>2, <2>3, <2>4, <2>5 DEF ClientStep
<1>6. CASE UNCHANGED vars
  BY <1>6 DEF vars, FarmInv, TypeOK, Unborn, Outcomes, Waiting, Served, Tasks,
              LossesExplained, ZombiesAnnounced, CleanExit, Alive, Dead
<1>. QED  BY <1>1, <1>2, <1>3, <1>4, <1>5, <1>6 DEF Next

LEMMA FarmInvariant == Spec => []FarmInv
BY FarmInvInit, FarmInvNext, PTL DEF Spec

\* Every variable of the farm keeps its type, for any number of jobs, machines
\* and faults.
THEOREM FarmTypeCorrect == Spec => []TypeOK
<1>1. FarmInv => TypeOK
  BY DEF FarmInv
<1>. QED  BY <1>1, FarmInvariant, PTL

\* A job handed out is lost only when its fork failed, its child was killed or its
\* client crashed: nothing that accept(), REAPER or the forks do loses one.
THEOREM FarmLossesExplained == Spec => []LossesExplained
<1>1. FarmInv => LossesExplained
  BY DEF FarmInv
<1>. QED  BY <1>1, FarmInvariant, PTL

\* Coalesced signals leave no dead child behind, unless one died of a signal.
THEOREM FarmZombiesAnnounced == Spec => []ZombiesAnnounced
<1>1. FarmInv => ZombiesAnnounced
  BY DEF FarmInv
<1>. QED  BY <1>1, FarmInvariant, PTL

\* The server that ends by itself has collected every child.
THEOREM FarmCleanExit == Spec => []CleanExit
<1>1. FarmInv => CleanExit
  BY DEF FarmInv
<1>. QED  BY <1>1, FarmInvariant, PTL

\* A client works on a job, its answer waits, or its result is printed: one of them.
LEMMA InOnePlace ==
    ASSUME FarmInv, NEW j \in Jobs
    PROVE  printed[j] + Cardinality({w \in Workers : task[w] = j})
             + Cardinality({c \in Jobs : Alive(c) /\ child[c].answer = j}) <= 1
<1>. DEFINE clients == {w \in Workers : task[w] = j}
            answers == {c \in Jobs : Alive(c) /\ child[c].answer = j}
<1>1. /\ printed[j] \in {0, 1}
      /\ printed[j] = 1 => ~Alive(j)
  BY DEF FarmInv, Outcomes, Alive
<1>2. clients # {} => /\ Alive(j)
                      /\ child[j].peer # Gone
                      /\ clients = {child[j].peer}
  <2>1. \A w \in clients : /\ child[j].status = "asked"
                           /\ child[j].peer = w
                           /\ w # Gone
    BY JobFacts DEF FarmInv, Tasks
  <2>. QED  BY <2>1 DEF Alive
<1>3. answers # {} => /\ Alive(j)
                      /\ child[j].peer = Gone
                      /\ answers = {j}
  <2>1. \A c \in answers : c = j /\ child[c].peer = Gone /\ Alive(c)
    BY JobFacts DEF FarmInv, Outcomes
  <2>. QED  BY <2>1
<1>. HIDE DEF clients, answers
<1>4. Cardinality(clients) = IF clients = {} THEN 0 ELSE 1
  BY <1>2, FS_EmptySet, FS_Singleton
<1>5. Cardinality(answers) = IF answers = {} THEN 0 ELSE 1
  BY <1>3, FS_EmptySet, FS_Singleton
<1>6. printed[j] + Cardinality(clients) + Cardinality(answers) <= 1
  BY <1>1, <1>2, <1>3, <1>4, <1>5
<1>. QED  BY <1>6 DEF clients, answers

\* No job is worked on by two machines, and no result is printed twice.
THEOREM FarmAtMostOnce == Spec => []AtMostOnce
<1>1. FarmInv => AtMostOnce
  BY InOnePlace DEF AtMostOnce
<1>. QED  BY <1>1, FarmInvariant, PTL

--------------------------------------------------------------------------------
(* The farm is a pool of jobs *)

\* What became of a job, told by whether its child lives and whether it printed.
LEMMA Fates ==
    ASSUME FarmInv, NEW j \in Jobs
    PROVE  Fate(j) = IF printed[j] = 1 THEN "printed"
                     ELSE IF Alive(j) THEN "out"
                     ELSE IF j < i THEN "lost" ELSE "todo"
BY DEF Fate, FarmInv, Outcomes

LEMMA FatesNext ==
    ASSUME FarmInv', NEW j \in Jobs
    PROVE  Fate(j)' = IF printed'[j] = 1 THEN "printed"
                      ELSE IF Alive(j)' THEN "out"
                      ELSE IF j < i' THEN "lost" ELSE "todo"
BY DEF Fate, FarmInv, Outcomes

\* A living child has printed nothing, and its job was handed out.
LEMMA LivingIsOut ==
    ASSUME FarmInv, NEW j \in Jobs, Alive(j)
    PROVE  printed[j] # 1 /\ j < i
BY JobFacts DEF FarmInv, TypeOK, Unborn, Outcomes, Alive

LEMMA PoolInit ==
    ASSUME Init
    PROVE  Pool!Init
<1>1. FarmInv
  BY FarmInvInit
<1>2. \A j \in Jobs : Fate(j) = "todo"
  BY <1>1, Fates, JobFacts DEF Init, Alive
<1>. QED  BY <1>2 DEF Init, Pool!Init, Pool!Jobs, Jobs

\* Steps that no job notices.
LEMMA QuietStep ==
    ASSUME FarmInv, FarmInv', UNCHANGED <<i, printed>>,
           \A j \in Jobs : Alive(j)' <=> Alive(j)
    PROVE  UNCHANGED Pool!vars
<1>1. \A j \in Jobs : Fate(j)' = Fate(j)
  BY Fates, FatesNext
<1>. QED  BY <1>1 DEF Pool!vars

\* A step in which one child, that of j, comes to its end.
LEMMA SettlingStep ==
    ASSUME FarmInv, FarmInv', NEW j \in Jobs, Alive(j), ~Alive(j)', i' = i,
           \A k \in Jobs : k # j => /\ Alive(k)' <=> Alive(k)
                                    /\ printed'[k] = printed[k]
    PROVE  Pool!Settle(j)
<1>1. Fate(j) = "out" /\ j < i
  BY Fates, LivingIsOut
<1>2. Fate(j)' \in {"printed", "lost"}
  BY <1>1, FatesNext
<1>3. \A k \in Jobs : k # j => Fate(k)' = Fate(k)
  BY Fates, FatesNext
<1>4. [k \in Jobs |-> Fate(k)]' = [[k \in Jobs |-> Fate(k)] EXCEPT ![j] = Fate(j)']
  BY <1>3
<1>. QED  BY <1>1, <1>2, <1>4 DEF Pool!Settle

\* The server hands out the next job, to a child or to a fork that fails.
LEMMA HandingStep ==
    ASSUME FarmInv, FarmInv', Serve
    PROVE  Pool!HandOut
<1>1. i \in Jobs /\ i \in Nat /\ i < NumJobs /\ i' = i + 1 /\ printed' = printed
  BY FarmAssumption DEF Serve, FarmInv, TypeOK, Jobs
<1>2. child[i].status = "none" /\ printed[i] # 1
  BY <1>1, JobFacts DEF FarmInv, Unborn, Outcomes
<1>3. \A k \in Jobs : k # i => (Alive(k)' <=> Alive(k))
  BY <1>1 DEF Serve, FarmInv, TypeOK, Children, Alive
<1>. PICK h \in Jobs : h = i
  BY <1>1
<1>4. Fate(h)' \in {"out", "lost"}
  <2>1. printed'[h] # 1 /\ h < i'
    BY <1>1, <1>2
  <2>. QED  BY <2>1, FatesNext
<1>5. \A k \in Jobs : k # h => Fate(k)' = Fate(k)
  <2>. SUFFICES ASSUME NEW k \in Jobs, k # h PROVE Fate(k)' = Fate(k)
    OBVIOUS
  <2>1. k < i' <=> k < i
    BY <1>1, JobFacts
  <2>. QED  BY <1>1, <1>3, <2>1, Fates, FatesNext
<1>6. [k \in Jobs |-> Fate(k)]' = [[k \in Jobs |-> Fate(k)] EXCEPT ![h] = Fate(h)']
  BY <1>5
<1>. QED  BY <1>1, <1>4, <1>6 DEF Pool!HandOut

LEMMA PoolNext ==
    ASSUME FarmInv, FarmInv', [Next]_vars
    PROVE  [Pool!Next]_(Pool!vars)
<1>1. CASE Serve
  BY <1>1, HandingStep DEF Pool!Next
<1>2. ASSUME NEW j \in Jobs,
             \/ ChildRead(j) \/ ChildKilled(j)
             \/ ChildPrint(j) /\ child'[j].status = "killed"
      PROVE  Pool!Settle(j)
  <2>1. Alive(j) /\ i' = i
    BY <1>2 DEF ChildRead, ChildKilled, ChildPrint, Alive
  <2>2. ~Alive(j)'
    BY <1>2 DEF ChildRead, ChildKilled, FarmInv, TypeOK, Children, Alive
  <2>3. \A k \in Jobs : k # j => (Alive(k)' <=> Alive(k))
    BY <1>2 DEF ChildRead, ChildKilled, ChildPrint, FarmInv, TypeOK, Children, Alive
  <2>4. \A k \in Jobs : k # j => printed'[k] = printed[k]
    <3>1. CASE ChildRead(j)
      <4>1. child[j].answer \in {j, NoJob}
        BY DEF FarmInv, Outcomes
      <4>. QED  BY <3>1, <4>1 DEF ChildRead, FarmInv, TypeOK
    <3>2. CASE ChildKilled(j) \/ ChildPrint(j)
      BY <3>2 DEF ChildKilled, ChildPrint
    <3>. QED  BY <1>2, <3>1, <3>2
  <2>. QED  BY <2>1, <2>2, <2>3, <2>4, SettlingStep
<1>3. ASSUME Reap \/ Await
      PROVE  UNCHANGED Pool!vars
  <2>1. PICK collected \in SUBSET Jobs :
          /\ \/ Bury(collected) /\ \A j \in collected : Dead(j)
             \/ child' = child
          /\ UNCHANGED <<i, printed>>
    <3>1. UNCHANGED <<i, printed>>
      BY <1>3 DEF Reap, Await
    <3>2. CASE Reap
      <4>. PICK collected \in SUBSET Jobs : Reaped(collected) /\ Bury(collected)
        BY <3>2 DEF Reap
      <4>1. \A j \in collected : Dead(j)
        BY DEF Reaped, Dead
      <4>. QED  BY <3>1, <4>1
    <3>3. CASE Await
      <4>1. CASE \E j \in Jobs : Dead(j) /\ Bury({j})
        BY <3>1, <4>1
      <4>2. CASE child' = child
        BY <3>1, <4>2
      <4>. QED  BY <3>3, <4>1, <4>2 DEF Await
    <3>. QED  BY <1>3, <3>2, <3>3
  <2>2. \A j \in Jobs : Alive(j)' <=> Alive(j)
    <3>1. CASE Bury(collected) /\ \A j \in collected : Dead(j)
      BY <3>1, BuryEnds DEF FarmInv, Alive, Dead
    <3>2. CASE child' = child
      BY <3>2 DEF Alive
    <3>. QED  BY <2>1, <3>1, <3>2
  <2>. QED  BY <2>1, <2>2, QuietStep
<1>4. ASSUME LoopEnds \/ CheckLoop \/ Terminate \/ ParentExits \/ UNCHANGED vars
             \/ \E w \in Workers : Connect(w) \/ Eof(w) \/ Vanish(w)
      PROVE  UNCHANGED Pool!vars
  <2>1. UNCHANGED <<i, child, printed>>
    BY <1>4 DEF LoopEnds, CheckLoop, Terminate, ParentExits, Connect, Eof, Vanish, vars
  <2>. QED  BY <2>1, QuietStep DEF Alive
<1>5. ASSUME NEW w \in Workers, Answer(w) \/ Crash(w)
      PROVE  UNCHANGED Pool!vars
  <2>1. UNCHANGED <<i, printed>>
    BY <1>5 DEF Answer, Crash
  <2>2. \A j \in Jobs : child'[j].status = child[j].status
    <3>. SUFFICES ASSUME NEW j \in Jobs PROVE child'[j].status = child[j].status
      OBVIOUS
    <3>1. child[j] \in Children
      BY DEF FarmInv, TypeOK
    <3>2. CASE Answer(w)
      <4>1. [child[j] EXCEPT !.answer = task[w], !.peer = Gone].status = child[j].status
        BY <3>1 DEF Children
      <4>. QED  BY <3>2, <4>1 DEF Answer
    <3>3. CASE Crash(w)
      <4>1. [child[j] EXCEPT !.peer = Gone].status = child[j].status
        BY <3>1 DEF Children
      <4>. QED  BY <3>3, <4>1 DEF Crash
    <3>. QED  BY <1>5, <3>2, <3>3
  <2>. QED  BY <2>1, <2>2, QuietStep DEF Alive
<1>6. ASSUME NEW j \in Jobs, ChildPrint(j), child'[j].status # "killed"
      PROVE  UNCHANGED Pool!vars
  <2>1. child' = [child EXCEPT ![j].status = "asked"] /\ UNCHANGED <<i, printed>>
    BY <1>6 DEF ChildPrint, FarmInv, TypeOK, Children
  <2>2. child[j].status = "born"
    BY <1>6 DEF ChildPrint
  <2>3. \A k \in Jobs : Alive(k)' <=> Alive(k)
    BY <2>1, <2>2 DEF FarmInv, TypeOK, Children, Alive
  <2>. QED  BY <2>1, <2>3, QuietStep
<1>7. CASE \E j \in Jobs : ChildStep(j) \/ ChildKilled(j)
  <2>. PICK j \in Jobs : ChildStep(j) \/ ChildKilled(j)
    BY <1>7
  <2>1. CASE ChildPrint(j) /\ child'[j].status # "killed"
    BY <1>6, <2>1
  <2>2. Pool!Settle(j) => Pool!Next
    BY DEF Pool!Next, Pool!Jobs, Jobs
  <2>3. CASE ChildPrint(j) /\ child'[j].status = "killed"
    BY <1>2, <2>2, <2>3
  <2>4. CASE ChildRead(j)
    BY <1>2, <2>2, <2>4
  <2>5. CASE ChildKilled(j)
    BY <1>2, <2>2, <2>5
  <2>. QED  BY <2>1, <2>3, <2>4, <2>5 DEF ChildStep
<1>. QED
  BY <1>1, <1>3, <1>4, <1>5, <1>7 DEF Next, ServerStep, ClientStep

\* Whatever processes, sockets and signals do, jobs go out one at a time and in
\* order, each step settles at most one, and what is settled stays so.
THEOREM FarmIsAPool == Spec => ImplementsJobPool
<1>1. Init => Pool!Init
  BY PoolInit
<1>2. FarmInv /\ FarmInv' /\ [Next]_vars => [Pool!Next]_(Pool!vars)
  BY PoolNext
<1>. QED  BY <1>1, <1>2, FarmInvariant, PTL DEF Spec, ImplementsJobPool, Pool!Spec
================================================================================
