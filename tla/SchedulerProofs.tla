-------------------------- MODULE SchedulerProofs --------------------------
(***************************************************************************)
(* No thread of a scheduler is joined while doStartObject() works on the   *)
(* vector of reactors, which misses one then only to a doStop() that       *)
(* overlaps; one that runs has all its reactors and one that is stopped no *)
(* threads, for any number of reactors, of threads that stop it and of     *)
(* users, when one thread starts it.                                       *)
(***************************************************************************)
EXTENDS Scheduler, FiniteSetTheorems, TLAPS

OneStarter == SchedulerAssumption /\ \A c, d \in Starters : c = d

States == {"stopped", "startingwait", "startingerror", "running", "stopping", "stoppingwait"}

\* The client that starts or stops the threads is at one of these places.
Owning == {"starting", "startjoin", "startend", "users", "join", "end"}
Owns(c) == pc[c] \in Owning

Counting == {u \in Users : use[u] \in {"counted", "uses", "leaves"}}

Types ==
    /\ status \in States
    /\ thr \subseteq Reactors
    /\ thread \in [Reactors -> {"none", "created", "runs", "done"}]
    /\ pc \in [Clients -> Owning \cup {"idle", "tostart", "tostop", "tostopwait", "stopwait"}]
    /\ use \in [Users -> {"idle", "counted", "uses", "leaves", "gone"}]

\* There is one owner, and what the status says of it
Owners ==
    /\ \A c, d \in Clients : Owns(c) /\ Owns(d) => c = d
    /\ \A c \in Clients : pc[c] \in {"starting", "startjoin", "startend", "tostart"} => c \in Starters
    /\ status \in {"running", "stopping"} => \A c \in Clients : ~Owns(c)
    /\ status = "stopped" => \A c \in Clients : Owns(c) => pc[c] \in {"startjoin", "startend"}
    /\ \A c \in Clients : pc[c] = "starting" => status \in Starting
    /\ \A c \in Clients : pc[c] = "users" => status = "stoppingwait"

\* What the threads are doing, and who is about to join them
Threads ==
    /\ \A i \in Reactors : thread[i] \in {"created", "runs"} => i \in thr
    /\ \A i \in Reactors : thread[i] = "created" => \E c \in Clients : pc[c] \in {"starting", "startjoin"}
    /\ preactor = {i \in Reactors : thread[i] = "runs"}
    /\ reactorcnt = Cardinality(preactor)
    /\ status \in {"startingwait", "running"} => stopped = {}
    /\ status = "running" => \A i \in Reactors : thread[i] = "runs"
    /\ \A c \in Clients : pc[c] \in {"startend", "end"} => \A i \in Reactors : thread[i] \in {"none", "done"}
    /\ StoppedHasNoThreads

\* usecnt counts the users, and while one uses the reactors nobody joins.
Using ==
    /\ usecnt = Cardinality(Counting)
    /\ (\E u \in Users : use[u] = "uses") =>
          /\ thr = Reactors /\ status \in {"running", "stopping", "stoppingwait"}
          /\ \A c \in Clients : Owns(c) => pc[c] = "users"

IInv == Types /\ Owners /\ Threads /\ Using

LEMMA FiniteSets ==
    OneStarter => /\ IsFiniteSet(Reactors) /\ IsFiniteSet(Users) /\ IsFiniteSet(Counting)
                  /\ Cardinality(Counting) \in Nat
BY FS_Subset, FS_CardinalityType DEF OneStarter, SchedulerAssumption, Counting

LEMMA InitHolds == OneStarter /\ Init => IInv
<1> SUFFICES ASSUME Init PROVE IInv
  OBVIOUS
<1>1. Counting = {} /\ {i \in Reactors : thread[i] = "runs"} = {}
  BY DEF Init, Counting
<1>2. Types /\ Owners
  BY DEF Init, Types, States, Owning, Owners, Owns
<1>3. Threads
  BY <1>1, FS_EmptySet DEF Init, Threads, StoppedHasNoThreads
<1>4. Using
  BY <1>1, FS_EmptySet DEF Init, Using
<1> QED BY <1>2, <1>3, <1>4 DEF IInv

(***************************************************************************)
(* doStart                                                                 *)
(***************************************************************************)

\* A client that sleeps, or goes where it owns nothing, changes nothing.
LEMMA GoesAway ==
    ASSUME IInv, NEW c \in Clients, ~Owns(c),
           NEW p \in {"idle", "tostart", "tostop", "tostopwait", "stopwait"}, Goto(c, p),
           p = "tostart" => c \in Starters,
           UNCHANGED <<status, reactorcnt, usecnt, thr, preactor, thread, stopped, use>>
    PROVE  IInv'
<1>1. /\ pc' \in [Clients -> Owning \cup {"idle", "tostart", "tostop", "tostopwait", "stopwait"}]
      /\ pc'[c] = p /\ \A d \in Clients : d # c => pc'[d] = pc[d]
  BY DEF IInv, Types, Goto, Owning
<1>2. \A d \in Clients : /\ Owns(d)' <=> Owns(d)
                         /\ \A q \in Owning : pc'[d] = q <=> pc[d] = q
  BY <1>1 DEF Owns, Owning
<1>3. Types'
  BY <1>1 DEF IInv, Types
<1>4. Owners'
  BY <1>1, <1>2 DEF IInv, Owners, Owning
<1>5. Threads'
  BY <1>2 DEF IInv, Threads, StoppedHasNoThreads, Owning
<1>6. Using'
  BY <1>2 DEF IInv, Using, Counting, Owning
<1> QED BY <1>3, <1>4, <1>5, <1>6 DEF IInv

LEMMA LaunchHolds ==
    ASSUME OneStarter, IInv, NEW c \in Starters, pc[c] \in {"idle", "tostart"}, ~CannotStart, Launch(c)
    PROVE  IInv'
<1> USE DEF Owning
<1>1. c \in Clients /\ status = "stopped" /\ \A d \in Clients : ~Owns(d)
  BY DEF OneStarter, SchedulerAssumption, CannotStart, IInv, Owners, Owns
<1>2. \A i \in Reactors : thread[i] \in {"none", "done"}
  BY <1>1 DEF IInv, Threads, StoppedHasNoThreads, Owns
<1>3. preactor = {} /\ \A u \in Users : use[u] # "uses"
  BY <1>1, <1>2 DEF IInv, Threads, Using
<1>4. stopped' = {} /\ UNCHANGED <<reactorcnt, preactor, usecnt, use>>
  BY DEF Launch, base
<1>5. PICK p \in {"starting", "startjoin"} :
         /\ pc' = [pc EXCEPT ![c] = p]
         /\ thread' \in [Reactors -> {"none", "created"}] /\ thr' \subseteq Reactors
         /\ \A i \in Reactors : thread'[i] = "created" => i \in thr'
         /\ p = "starting" => status' = "startingwait"
         /\ p = "startjoin" => status' = "stopped"
  <2>1. CASE Sleep(c, "starting") /\ thread' = [i \in Reactors |-> "created"] /\ thr' = Reactors /\ status' = "startingwait"
    BY <2>1 DEF Sleep, Goto
  <2>2. CASE /\ \E k \in Reactors :
                  LET created == { i \in Reactors : i < k } IN
                  /\ thread' = [i \in Reactors |-> IF i \in created THEN "created" ELSE "none"]
                  /\ thr' = created
             /\ Goto(c, "startjoin") /\ UNCHANGED status
    BY <1>1, <2>2 DEF Goto
  <2> QED BY <2>1, <2>2 DEF Launch
<1>6. /\ pc' \in [Clients -> Owning \cup {"idle", "tostart", "tostop", "tostopwait", "stopwait"}]
      /\ pc'[c] = p /\ \A d \in Clients : d # c => pc'[d] = pc[d] /\ ~Owns(d)'
  BY <1>1, <1>5 DEF IInv, Types, Owns
<1>7. Types'
  BY <1>4, <1>5, <1>6 DEF IInv, Types, States
<1>8. Owners'
  BY <1>1, <1>5, <1>6 DEF IInv, Owners, Owns, Starting
<1>9. Threads'
  <2>1. preactor' = {i \in Reactors : thread'[i] = "runs"}
    BY <1>3, <1>4, <1>5
  <2>2. pc'[c] \notin {"startend", "end"} /\ (status' = "stopped" => pc'[c] = "startjoin") /\ status' # "running"
    BY <1>5, <1>6
  <2> QED BY <1>1, <1>4, <1>5, <1>6, <2>1, <2>2, SMTT(60)
             DEF IInv, Threads, StoppedHasNoThreads, Owns
<1>10. Using'
  BY <1>3, <1>4 DEF IInv, Using, Counting
<1> QED BY <1>7, <1>8, <1>9, <1>10, SMTT(60) DEF IInv

\* All reactors have been prepared, or one has not and the threads are joined.
LEMMA StartedHolds == ASSUME OneStarter, IInv, NEW c \in Clients, Started(c) PROVE IInv'
<1> USE DEF Owning
<1>1. /\ pc[c] = "starting" /\ status \in Starting
      /\ UNCHANGED <<reactorcnt, usecnt, thr, preactor, thread, use>>
      /\ \A d \in Clients : Owns(d) => d = c
  BY DEF Started, base, IInv, Owners, Owns
<1>2. \A u \in Users : use[u] # "uses"
  BY <1>1, SMTT(60) DEF IInv, Using, Starting
<1>3. CASE status = "startingwait" /\ reactorcnt # Cardinality(Reactors)
  <2>1. pc' = pc /\ UNCHANGED <<status, stopped>>
    BY <1>1, <1>3 DEF Started, Sleep, Goto, IInv, Types
  <2> QED
    BY <1>1, <2>1 DEF IInv, Types, Owners, Owns, Threads, StoppedHasNoThreads, Using, Counting
<1>4. CASE status = "startingerror"
  <2>1. status' = "stoppingwait" /\ pc' = [pc EXCEPT ![c] = "startjoin"]
    BY <1>4 DEF Started, Goto
  <2>2. /\ pc' \in [Clients -> Owning \cup {"idle", "tostart", "tostop", "tostopwait", "stopwait"}]
        /\ pc'[c] = "startjoin" /\ \A d \in Clients : d # c => pc'[d] = pc[d] /\ ~Owns(d)'
    BY <1>1, <2>1 DEF IInv, Types, Owns
  <2>3. Types'
    BY <1>1, <2>1, <2>2 DEF IInv, Types, States
  <2>4. Owners'
    BY <1>1, <2>1, <2>2 DEF IInv, Owners, Owns
  <2>5. Threads'
    BY <1>1, <2>1, <2>2, SMTT(60) DEF IInv, Threads, StoppedHasNoThreads, Owns
  <2>6. Using'
    BY <1>1, <1>2 DEF IInv, Using, Counting
  <2> QED BY <2>3, <2>4, <2>5, <2>6 DEF IInv
<1>5. CASE status = "startingwait" /\ reactorcnt = Cardinality(Reactors)
  <2>1. status' = "running" /\ pc' = [pc EXCEPT ![c] = "idle"] /\ UNCHANGED stopped
    BY <1>5 DEF Started, Goto
  <2>2. preactor = Reactors
    <3>1. preactor \subseteq Reactors /\ Cardinality(preactor) = Cardinality(Reactors)
      BY <1>5 DEF IInv, Threads
    <3> QED BY <3>1, FiniteSets, FS_Subset
  <2>3. \A i \in Reactors : thread[i] = "runs"
    BY <2>2 DEF IInv, Threads
  <2>4. /\ pc' \in [Clients -> Owning \cup {"idle", "tostart", "tostop", "tostopwait", "stopwait"}]
        /\ pc'[c] = "idle" /\ \A d \in Clients : ~Owns(d)' /\ (d # c => pc'[d] = pc[d])
    BY <1>1, <2>1 DEF IInv, Types, Owns
  <2>5. Types'
    BY <1>1, <2>1, <2>4 DEF IInv, Types, States
  <2>6. Owners'
    BY <1>1, <2>1, <2>4 DEF IInv, Owners, Owns
  <2>7. Threads'
    BY <1>1, <1>5, <2>1, <2>3, <2>4 DEF IInv, Threads, StoppedHasNoThreads, Owns
  <2>8. Using'
    BY <1>1, <1>2 DEF IInv, Using, Counting
  <2> QED BY <2>5, <2>6, <2>7, <2>8 DEF IInv
<1> QED BY <1>1, <1>3, <1>4, <1>5, SMTT(60) DEF Starting

(***************************************************************************)
(* The joins and doStop                                                    *)
(***************************************************************************)
LEMMA JoinedHolds == ASSUME IInv, NEW c \in Clients, Joined(c) PROVE IInv'
<1> USE DEF Owning
<1>1. /\ pc[c] \in {"startjoin", "join"} /\ \A i \in thr : thread[i] = "done"
      /\ thr' = {} /\ preactor' = preactor \ thr
      /\ UNCHANGED <<status, reactorcnt, usecnt, thread, stopped, use>>
      /\ \A d \in Clients : Owns(d) => d = c
  BY SMTT(60) DEF Joined, base, IInv, Owners, Owns
<1>2. PICK p \in {"end", "startend"} : pc' = [pc EXCEPT ![c] = p] /\ (p = "startend" <=> pc[c] = "startjoin")
  BY <1>1, ZenonT(60) DEF Joined, Goto
<1>3. \A i \in Reactors : thread[i] \in {"none", "done"}
  BY <1>1 DEF IInv, Types, Threads
<1>4. preactor' = preactor
  BY <1>1, <1>3 DEF IInv, Threads
<1>5. \A u \in Users : use[u] # "uses"
  BY <1>1 DEF IInv, Using, Owns
<1>6. /\ pc' \in [Clients -> Owning \cup {"idle", "tostart", "tostop", "tostopwait", "stopwait"}]
      /\ pc'[c] = p /\ \A d \in Clients : d # c => pc'[d] = pc[d] /\ ~Owns(d)'
  BY <1>1, <1>2 DEF IInv, Types, Owns
<1>7. Types'
  BY <1>1, <1>6 DEF IInv, Types
<1>8. Owners'
  BY <1>1, <1>2, <1>6, SMTT(60) DEF IInv, Owners, Owns
<1>9. Threads'
  BY <1>1, <1>3, <1>4, <1>6 DEF IInv, Threads, StoppedHasNoThreads
<1>10. Using'
  BY <1>1, <1>5 DEF IInv, Using, Counting
<1> QED BY <1>7, <1>8, <1>9, <1>10 DEF IInv

LEMMA EndedHolds == ASSUME IInv, NEW c \in Clients, Ended(c) PROVE IInv'
<1> USE DEF Owning
<1>1. /\ pc[c] \in {"startend", "end"} /\ status' = "stopped" /\ pc' = [pc EXCEPT ![c] = "idle"]
      /\ UNCHANGED <<reactorcnt, usecnt, thr, preactor, thread, stopped, use>>
      /\ \A d \in Clients : Owns(d) => d = c
  BY DEF Ended, Goto, base, IInv, Owners, Owns
<1>2. \A i \in Reactors : thread[i] \in {"none", "done"}
  BY <1>1 DEF IInv, Threads
<1>3. \A u \in Users : use[u] # "uses"
  BY <1>1 DEF IInv, Using, Owns
<1>4. /\ pc' \in [Clients -> Owning \cup {"idle", "tostart", "tostop", "tostopwait", "stopwait"}]
      /\ pc'[c] = "idle" /\ \A d \in Clients : ~Owns(d)' /\ (d # c => pc'[d] = pc[d])
  BY <1>1 DEF IInv, Types, Owns
<1>5. Types'
  BY <1>1, <1>4, SMTT(60) DEF IInv, Types, States
<1>6. Owners'
  BY <1>1, <1>4, SMTT(60) DEF IInv, Owners, Owns
<1>7. Threads'
  BY <1>1, <1>2, <1>4 DEF IInv, Threads, StoppedHasNoThreads, Owns
<1>8. Using'
  BY <1>1, <1>3 DEF IInv, Using, Counting
<1> QED BY <1>5, <1>6, <1>7, <1>8, SMTT(60) DEF IInv

LEMMA StopNowHolds ==
    ASSUME IInv, NEW c \in Clients, ~Owns(c), NEW wait \in BOOLEAN, StopNow(c, wait)
    PROVE  IInv'
<1> USE DEF Owning
<1>1. UNCHANGED <<reactorcnt, usecnt, thr, preactor, thread, use>>
  BY DEF StopNow
<1>2. CASE status \in {"running", "stopping"}
  <2>1. /\ status' = IF wait THEN "stoppingwait" ELSE "stopping"
        /\ pc' = [pc EXCEPT ![c] = IF wait THEN "users" ELSE "idle"]
    BY <1>2, SMTT(60) DEF StopNow, Goto
  <2>2. /\ pc' \in [Clients -> Owning \cup {"idle", "tostart", "tostop", "tostopwait", "stopwait"}]
        /\ pc'[c] = (IF wait THEN "users" ELSE "idle")
        /\ \A d \in Clients : d # c => pc'[d] = pc[d] /\ ~Owns(d)'
    BY <1>2, <2>1, SMTT(60) DEF IInv, Types, Owners, Owns
  <2>3. \A i \in Reactors : thread[i] # "created"
    BY <1>2 DEF IInv, Threads, Owners, Owns
  <2>4. Types'
    BY <1>1, <2>1, <2>2, SMTT(60) DEF IInv, Types, States
  <2>5. Owners'
    BY <2>1, <2>2, SMTT(60) DEF IInv, Owners, Owns
  <2>6. Threads'
    BY <1>1, <2>1, <2>2, <2>3, SMTT(60) DEF IInv, Threads, StoppedHasNoThreads, Owns
  <2>7. Using'
    BY <1>1, <2>1, <2>2 DEF IInv, Using, Counting, Owns
  <2> QED BY <2>4, <2>5, <2>6, <2>7 DEF IInv
<1>3. CASE status \notin {"running", "stopping"}
  <2>1. UNCHANGED <<status, stopped>> /\ \E p \in {"idle", "stopwait"} : Goto(c, p)
    BY <1>3, SMTT(60) DEF StopNow, Sleep
  <2> QED BY <1>1, <2>1, GoesAway
<1> QED BY <1>2, <1>3

LEMMA NoUsersHolds == ASSUME OneStarter, IInv, NEW c \in Clients, NoUsers(c) PROVE IInv'
<1> USE DEF Owning
<1>1. /\ pc[c] = "users" /\ usecnt = 0 /\ pc' = [pc EXCEPT ![c] = "join"]
      /\ UNCHANGED <<status, reactorcnt, usecnt, thr, preactor, thread, stopped, use>>
      /\ \A d \in Clients : Owns(d) => d = c
  BY DEF NoUsers, Goto, base, IInv, Owners, Owns
<1>2. Counting = {}
  BY <1>1, FiniteSets, FS_EmptySet, ZenonT(60) DEF IInv, Using
<1>3. \A u \in Users : use[u] # "uses"
  BY <1>2 DEF Counting
<1>4. /\ pc' \in [Clients -> Owning \cup {"idle", "tostart", "tostop", "tostopwait", "stopwait"}]
      /\ pc'[c] = "join" /\ \A d \in Clients : d # c => pc'[d] = pc[d] /\ ~Owns(d)'
  BY <1>1 DEF IInv, Types, Owns
<1>5. status = "stoppingwait" /\ \A i \in Reactors : thread[i] # "created"
  BY <1>1 DEF IInv, Owners, Threads, Owns
<1>6. Types'
  BY <1>1, <1>4, SMTT(60) DEF IInv, Types
<1>7. Owners'
  BY <1>1, <1>4, <1>5, SMTT(60) DEF IInv, Owners, Owns
<1>8. Threads'
  BY <1>1, <1>4, <1>5, SMTT(60) DEF IInv, Threads, StoppedHasNoThreads, Owns
<1>9. Using'
  BY <1>1, <1>3 DEF IInv, Using, Counting
<1> QED BY <1>6, <1>7, <1>8, <1>9 DEF IInv

LEMMA ClientHolds ==
    ASSUME OneStarter, IInv, NEW c \in Clients,
           doStart(c) \/ ClientStep(c) \/ \E wait \in BOOLEAN : doStop(c, wait)
    PROVE  IInv'
<1>1. CASE doStart(c) \/ StartAgain(c)
  <2>1. c \in Starters /\ pc[c] \in {"idle", "tostart"} /\ ~Owns(c)
    BY <1>1 DEF doStart, StartAgain, IInv, Owners, Owns, Owning
  <2>2. CASE CannotStart
    <3>1. Goto(c, "tostart") /\ UNCHANGED <<status, reactorcnt, usecnt, thr, preactor, thread, stopped, use>>
      BY <1>1, <2>2, SMTT(60) DEF doStart, StartAgain, Sleep, base
    <3> QED BY <2>1, <3>1, GoesAway, SMTT(60)
  <2>3. CASE ~CannotStart
    BY <1>1, <2>1, <2>3, LaunchHolds, SMTT(60) DEF doStart, StartAgain
  <2> QED BY <2>2, <2>3, SMTT(60)
<1>2. ASSUME NEW wait \in BOOLEAN, doStop(c, wait) \/ StopAgain(c, wait) PROVE IInv'
  <2>1. ~Owns(c)
    BY <1>2, SMTT(60) DEF doStop, StopAgain, Where, Owns, Owning
  <2>2. CASE status \in Starting
    <3>1. Goto(c, Where(wait)) /\ UNCHANGED <<status, reactorcnt, usecnt, thr, preactor, thread, stopped, use>>
      BY <1>2, <2>2 DEF doStop, StopAgain, Sleep, base
    <3>2. Where(wait) \in {"tostop", "tostopwait"}
      BY SMTT(60) DEF Where
    <3> QED BY <2>1, <3>1, <3>2, GoesAway, SMTT(60)
  <2>3. CASE status \notin Starting
    BY <1>2, <2>1, <2>3, StopNowHolds, SMTT(60) DEF doStop, StopAgain
  <2> QED BY <2>2, <2>3, SMTT(60)
<1>3. CASE OtherStopped(c)
  <2>1. /\ ~Owns(c) /\ \E p \in {"idle", "stopwait"} : Goto(c, p)
        /\ UNCHANGED <<status, reactorcnt, usecnt, thr, preactor, thread, stopped, use>>
    BY <1>3 DEF OtherStopped, Sleep, Owns, Owning
  <2> QED BY <2>1, GoesAway, SMTT(60)
<1> QED
  BY <1>1, <1>2, <1>3, StartedHolds, JoinedHolds, EndedHolds, NoUsersHolds, ZenonT(60)
     DEF ClientStep

(***************************************************************************)
(* Users and threads                                                       *)
(***************************************************************************)
LEMMA UserHolds == ASSUME OneStarter, IInv, NEW u \in Users, Enter(u) \/ Look(u) \/ Leave(u) PROVE IInv'
<1>1. UNCHANGED <<status, reactorcnt, thr, preactor, thread, stopped, pc>>
  BY DEF Enter, Look, Leave, base
<1>2. PICK p \in {"counted", "uses", "leaves", "gone"} :
         /\ use' = [use EXCEPT ![u] = p]
         /\ p = "uses" => status = "running"
  BY SMTT(60) DEF Enter, Look, Leave
<1>3. Types' /\ Owners' /\ Threads'
  BY <1>1, <1>2 DEF IInv, Types, Owners, Owns, Threads, StoppedHasNoThreads
<1>4. usecnt' = Cardinality(Counting')
  <2>1. CASE Enter(u)
    <3>1. u \notin Counting /\ Counting' = Counting \cup {u} /\ usecnt' = usecnt + 1
      BY <2>1 DEF Enter, Counting, IInv, Types
    <3> QED BY <3>1, FiniteSets, FS_AddElement, ZenonT(60) DEF IInv, Using
  <2>2. CASE Look(u)
    <3>1. Counting' = Counting /\ usecnt' = usecnt
      BY <2>2 DEF Look, Counting, base, IInv, Types
    <3> QED BY <3>1 DEF IInv, Using
  <2>3. CASE Leave(u)
    <3>1. u \in Counting /\ Counting' = Counting \ {u} /\ usecnt' = usecnt - 1
      BY <2>3 DEF Leave, Counting, IInv, Types
    <3> QED BY <3>1, FiniteSets, FS_RemoveElement, ZenonT(60) DEF IInv, Using
  <2> QED BY <2>1, <2>2, <2>3, SMTT(60)
<1>5. status = "running" => thr = Reactors /\ \A c \in Clients : ~Owns(c)
  BY DEF IInv, Types, Threads, Owners
<1>6. (\E v \in Users : use'[v] = "uses") => (\E v \in Users : use[v] = "uses") \/ status = "running"
  BY <1>2, SMTT(60) DEF IInv, Types
<1>7. Using'
  BY <1>1, <1>4, <1>5, <1>6 DEF IInv, Using, Owns
<1> QED BY <1>3, <1>7 DEF IInv

LEMMA PrepareHolds ==
    ASSUME OneStarter, IInv, NEW i \in Reactors, NEW success \in BOOLEAN, prepareThread(i, success) PROVE IInv'
<1> USE DEF Owning
<1>1. thread[i] = "created" /\ i \in thr /\ UNCHANGED <<usecnt, thr, stopped, pc, use>>
  BY DEF prepareThread, base, IInv, Threads
<1>2. PICK c \in Clients : pc[c] \in {"starting", "startjoin"}
  BY <1>1 DEF IInv, Threads
<1>3. \A d \in Clients : Owns(d) => d = c
  BY <1>2 DEF IInv, Owners, Owns
<1>4. \A u \in Users : use[u] # "uses"
  BY <1>2 DEF IInv, Using, Owns
<1>5. status \notin {"running", "stopping"}
  BY <1>2, SMTT(60) DEF IInv, Owners, Owns
<1>6. PICK p \in {"runs", "done"} :
         /\ thread' = [thread EXCEPT ![i] = p]
         /\ p = "runs" => /\ status = "startingwait" /\ UNCHANGED status
                          /\ preactor' = preactor \union {i} /\ reactorcnt' = reactorcnt + 1
         /\ p = "done" => status' = "startingerror" /\ UNCHANGED <<preactor, reactorcnt>>
  BY DEF prepareThread
<1>7. /\ thread' \in [Reactors -> {"none", "created", "runs", "done"}] /\ thread'[i] = p
      /\ \A k \in Reactors : k # i => thread'[k] = thread[k]
  BY <1>6, SMTT(60) DEF IInv, Types
<1>8. Types'
  BY <1>1, <1>6, <1>7, SMTT(60) DEF IInv, Types, States
<1>9. Owners'
  BY <1>1, <1>2, <1>3, <1>6, SMTT(60) DEF IInv, Owners, Owns, Starting
<1>10. preactor' = {k \in Reactors : thread'[k] = "runs"} /\ reactorcnt' = Cardinality(preactor')
  <2>1. i \notin preactor /\ IsFiniteSet(preactor)
    BY <1>1, FiniteSets, FS_Subset DEF IInv, Threads
  <2>2. CASE p = "runs"
    <3>1. preactor' = {k \in Reactors : thread'[k] = "runs"}
      BY <1>6, <1>7, <2>2 DEF IInv, Threads
    <3>2. Cardinality(preactor \union {i}) = Cardinality(preactor) + 1
      BY <2>1, FS_AddElement, SMTT(60)
    <3> QED BY <1>6, <2>2, <3>1, <3>2, ZenonT(60) DEF IInv, Threads
  <2>3. CASE p = "done"
    BY <1>1, <1>6, <1>7, <2>3 DEF IInv, Threads
  <2> QED BY <2>2, <2>3, SMTT(60)
<1>11. status' \notin {"running", "stopped"} /\ (status' = "startingwait" => stopped' = {})
  BY <1>1, <1>6, SMTT(60) DEF IInv, Threads
<1>12. Threads'
  BY <1>1, <1>2, <1>3, <1>7, <1>10, <1>11, SMTT(60) DEF IInv, Threads, StoppedHasNoThreads, Owns
<1>13. Using'
  BY <1>1, <1>4 DEF IInv, Using, Counting
<1> QED BY <1>8, <1>9, <1>12, <1>13, SMTT(60) DEF IInv

LEMMA UnprepareHolds == ASSUME OneStarter, IInv, NEW i \in Reactors, unprepareThread(i) PROVE IInv'
<1> USE DEF Owning
<1>1. /\ thread[i] = "runs" /\ stopped # {} /\ thread' = [thread EXCEPT ![i] = "done"]
      /\ preactor' = preactor \ {i} /\ reactorcnt' = reactorcnt - 1
      /\ UNCHANGED <<status, usecnt, thr, stopped, pc, use>>
  BY DEF unprepareThread, base
<1>2. /\ thread' \in [Reactors -> {"none", "created", "runs", "done"}] /\ thread'[i] = "done"
      /\ \A k \in Reactors : k # i => thread'[k] = thread[k]
  BY <1>1, SMTT(60) DEF IInv, Types
<1>3. i \in preactor /\ IsFiniteSet(preactor)
  BY <1>1, FiniteSets, FS_Subset DEF IInv, Threads
<1>4. Cardinality(preactor \ {i}) = Cardinality(preactor) - 1
  BY <1>3, FS_RemoveElement, SMTT(60)
<1>5. preactor' = {k \in Reactors : thread'[k] = "runs"} /\ reactorcnt' = Cardinality(preactor')
  BY <1>1, <1>2, <1>4 DEF IInv, Threads
<1>6. status \notin {"startingwait", "running"}
  BY <1>1, SMTT(60) DEF IInv, Threads
<1>7. Types' /\ Owners'
  BY <1>1, <1>2, SMTT(60) DEF IInv, Types, Owners, Owns
<1>8. Threads'
  BY <1>1, <1>2, <1>5, <1>6, SMTT(60) DEF IInv, Threads, StoppedHasNoThreads
<1>9. Using'
  BY <1>1 DEF IInv, Using, Counting, Owns
<1> QED BY <1>7, <1>8, <1>9, SMTT(60) DEF IInv

LEMMA SchedulerInvariant == OneStarter /\ Spec => []IInv
<1> SUFFICES ASSUME OneStarter PROVE Spec => []IInv
  OBVIOUS
<1>1. IInv /\ [Next]_vars => IInv'
  <2> SUFFICES ASSUME IInv, [Next]_vars PROVE IInv'
    BY SMTT(60)
  <2>1. CASE UNCHANGED vars
    BY <2>1 DEF vars, base, IInv, Types, Owners, Owns, Threads, StoppedHasNoThreads, Using, Counting
  <2>2. ASSUME NEW c \in Clients, doStart(c) \/ ClientStep(c) \/ \E wait \in BOOLEAN : doStop(c, wait) PROVE IInv'
    BY <2>2, ClientHolds
  <2>3. ASSUME NEW u \in Users, Enter(u) \/ Look(u) \/ Leave(u) PROVE IInv'
    BY <2>3, UserHolds, SMTT(60)
  <2>4. ASSUME NEW i \in Reactors, WorkerStep(i) PROVE IInv'
    BY <2>4, PrepareHolds, UnprepareHolds DEF WorkerStep
  <2> QED BY <2>1, <2>2, <2>3, <2>4, SMTT(60) DEF Next
<1>2. Init => IInv
  BY InitHolds
<1> QED BY <1>1, <1>2, PTL DEF Spec

\* Whatever starts, stops, failing threads and calls of doStartObject() overlap, a thread is
\* joined only when no such call is past its test of the state; such a call finds a reactor
\* without its object only after a doStop() has begun, and no thread is left behind.
THEOREM NoThreadIsJoinedInUse == OneStarter /\ Spec => []UsedIsNotJoined
<1>1. ASSUME IInv PROVE UsedIsNotJoined
  <2>1. status = "running" => preactor = Reactors /\ \A i \in Reactors : thread[i] = "runs"
    BY <1>1 DEF IInv, Threads
  <2>2. UsersHaveThreads
    BY <1>1, <2>1 DEF IInv, Using, UsersHaveThreads, Starting
  <2> QED BY <1>1, <2>1, <2>2, Zenon DEF IInv, Threads, UsedIsNotJoined, RunningIsComplete
<1> QED BY <1>1, SchedulerInvariant, PTL
=============================================================================
