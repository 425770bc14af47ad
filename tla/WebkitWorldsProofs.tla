------------------------ MODULE WebkitWorldsProofs ------------------------
(***************************************************************************)
(* Proofs about WebkitWorlds: scripts do not stack, and no response is     *)
(* awaited with m_targets_mutex held, for any pages, threads and changes.  *)
(***************************************************************************)
EXTENDS WebkitWorlds, TLAPS

Sessions == Targets \X Nat
Kinds == {"created", "changed", "destroyed"}

\* The places of attach_to_target(), with a session, before the script.
Unscripted == {"enabling", "entering", "binding", "replacing", "adding"}
\* Where the target is in m_attachments_in_flight because of the thread.
Flying == Unscripted \cup {"attach", "attaching", "failing", "saving", "showing", "leave"}

Typed ==
    /\ page \in [Targets -> {"new", "live", "gone"}]
    /\ queue \in Seq([kind : Kinds, target : Targets])
    /\ sessions \subseteq Sessions /\ scripts \subseteq sessions
    /\ m_attached_targets \in
        [Targets -> [present : BOOLEAN, session_id : Sessions \cup {None},
                     script : BOOLEAN, attaching : BOOLEAN]]
    /\ m_attachments_in_flight \subseteq Targets
    /\ pc \in [Threads -> Kinds \cup Flying \cup {"idle"}]
    /\ target \in [Threads -> Targets \cup {None}]
    /\ session \in [Threads -> Sessions \cup {None}]
    /\ \A th \in Threads : pc[th] # "idle" => target[th] \in Targets

\* One thread at a time has a target in flight.
Flights ==
    /\ \A th \in Threads : pc[th] \in Flying => target[th] \in m_attachments_in_flight
    /\ \A th, tj \in Threads :
        pc[th] \in Flying /\ pc[tj] \in Flying /\ target[th] = target[tj] => th = tj

\* Events, threads and sessions are those of pages that were opened, and a
\* page whose destruction is announced is gone.
Opened ==
    /\ \A i \in 1 .. Len(queue) :
        /\ page[queue[i].target] # "new"
        /\ queue[i].kind = "destroyed" => page[queue[i].target] = "gone"
    /\ \A th \in Threads : pc[th] # "idle" =>
        /\ page[target[th]] # "new"
        /\ pc[th] = "destroyed" => page[target[th]] = "gone"
    /\ \A s \in sessions : page[s[1]] # "new"

\* Whose the sessions and the scripts are.
Owned ==
    /\ \A th \in Threads : pc[th] \in Unscripted =>
        session[th] \in sessions \ scripts /\ session[th][1] = target[th]
    /\ \A th \in Threads : pc[th] = "saving" => session[th] \in scripts
    /\ \A t \in Targets :
        m_attached_targets[t].script => m_attached_targets[t].session_id \in scripts

\* As long as a page is there, the table knows its session, which is the
\* only one that can have a script.
Known ==
    /\ \A t \in Targets, s \in scripts :
        page[t] = "live" /\ s[1] = t => m_attached_targets[t].session_id = s
    /\ \A th \in Threads : pc[th] # "idle" /\ page[target[th]] = "live" =>
        /\ pc[th] \in {"attaching", "enabling", "entering"}
            => m_attached_targets[target[th]].session_id = None
        /\ pc[th] \in {"binding", "replacing", "adding"}
            => m_attached_targets[target[th]].session_id = session[th]

WebkitInv ==
    /\ Typed /\ Flights /\ Opened /\ Owned /\ Known
    /\ NoStacking /\ NoWaitUnderLock

(* It holds at first.                                                        *)
LEMMA WebkitStarts == Init => WebkitInv
  BY NoneAssumption DEF Init, WebkitInv, Typed, Flights, Opened, Owned, Known, NoStacking,
     NoWaitUnderLock, Absent, Sessions, Kinds, Flying, Unscripted

(* A step that changes nothing keeps it.                                     *)
LEMMA WebkitUnchanged == WebkitInv /\ UNCHANGED vars => WebkitInv'
  BY DEF vars, browserVars, tableVars, threadVars, WebkitInv, Typed, Flights, Opened, Owned, Known,
     NoStacking, NoWaitUnderLock

(* What Append, and what Head and Tail make of a queue.                       *)
LEMMA AppendFacts ==
  ASSUME NEW S, NEW q \in Seq(S), NEW e \in S
  PROVE  /\ Append(q, e) \in Seq(S)
         /\ Len(Append(q, e)) = Len(q) + 1
         /\ \A i \in 1 .. Len(q) + 1 :
             \/ i \in 1 .. Len(q) /\ Append(q, e)[i] = q[i]
             \/ Append(q, e)[i] = e
  OBVIOUS

LEMMA TailFacts ==
  ASSUME NEW S, NEW q \in Seq(S), q # <<>>
  PROVE  /\ Tail(q) \in Seq(S)
         /\ \A i \in 1 .. Len(Tail(q)) : i + 1 \in 1 .. Len(q) /\ Tail(q)[i] = q[i + 1]
         /\ 1 \in 1 .. Len(q) /\ Head(q) = q[1] /\ Head(q) \in S
  OBVIOUS

(* Every event of the queue has a kind and a target.                         *)
LEMMA Waiting ==
  ASSUME Typed, NEW i \in 1 .. Len(queue)
  PROVE  queue[i].kind \in Kinds /\ queue[i].target \in Targets
<1> DEFINE S == [kind : Kinds, target : Targets]
<1>1. \A e \in S : e.kind \in Kinds /\ e.target \in Targets
  OBVIOUS
<1>2. queue \in Seq(S)
  BY DEF Typed
<1> HIDE DEF S
<1>3. queue[i] \in S
  BY <1>2
<1> QED BY <1>1, <1>3

(* The queue after a page has announced an event, ...                        *)
LEMMA Announced ==
  ASSUME Typed, NEW t \in Targets, NEW kind \in Kinds, Announce(kind, t)
  PROVE  /\ queue' \in Seq([kind : Kinds, target : Targets])
         /\ \A i \in 1 .. Len(queue') :
             \/ i \in 1 .. Len(queue) /\ queue'[i] = queue[i]
             \/ queue'[i].kind = kind /\ queue'[i].target = t
<1> DEFINE S == [kind : Kinds, target : Targets]
           e == [kind |-> kind, target |-> t]
<1>1. queue \in Seq(S) /\ e \in S /\ queue' = Append(queue, e)
  BY DEF Typed, Announce
<1>2. e.kind = kind /\ e.target = t
  OBVIOUS
<1> HIDE DEF S, e
<1>3. queue' \in Seq(S) /\ Len(queue') = Len(queue) + 1
      /\ \A i \in 1 .. Len(queue) + 1 :
             (i \in 1 .. Len(queue) /\ queue'[i] = queue[i]) \/ queue'[i] = e
  BY <1>1, AppendFacts
<1> QED BY <1>2, <1>3 DEF S

(* ... and after a thread has taken one.                                     *)
LEMMA Taken ==
  ASSUME Typed, queue # <<>>
  PROVE  /\ Tail(queue) \in Seq([kind : Kinds, target : Targets])
         /\ \A i \in 1 .. Len(Tail(queue)) : i + 1 \in 1 .. Len(queue) /\ Tail(queue)[i] = queue[i + 1]
         /\ 1 \in 1 .. Len(queue) /\ Head(queue) = queue[1]
         /\ Head(queue).kind \in Kinds /\ Head(queue).target \in Targets
<1> DEFINE S == [kind : Kinds, target : Targets]
<1>1. queue \in Seq(S)
  BY DEF Typed
<1>2. \A e \in S : e.kind \in Kinds /\ e.target \in Targets
  OBVIOUS
<1> HIDE DEF S
<1>3. /\ Tail(queue) \in Seq(S)
      /\ \A i \in 1 .. Len(Tail(queue)) : i + 1 \in 1 .. Len(queue) /\ Tail(queue)[i] = queue[i + 1]
      /\ 1 \in 1 .. Len(queue) /\ Head(queue) = queue[1] /\ Head(queue) \in S
  BY <1>1, TailFacts
<1> QED BY <1>2, <1>3 DEF S

(* What a page does keeps the invariant.                                     *)
LEMMA PageKeeps ==
  ASSUME WebkitInv, NEW t \in Targets, Page(t)
  PROVE  WebkitInv'
<1>1. CASE PageOpens(t)
  <2>1. Announce("created", t) /\ "created" \in Kinds
    BY <1>1 DEF PageOpens, Kinds
  <2>2. Typed'
    BY <1>1, <2>1, Announced DEF PageOpens, WebkitInv, Typed, tableVars, threadVars
  <2>3. Flights' /\ Owned' /\ NoStacking' /\ NoWaitUnderLock'
    BY <1>1 DEF PageOpens, WebkitInv, Flights, Owned, NoStacking, NoWaitUnderLock, tableVars, threadVars
  <2>4. Opened'
    <3>1. \A x \in Targets : (page[x] # "new" => page'[x] # "new") /\ (page[x] = "gone" => page'[x] = "gone")
      BY <1>1 DEF PageOpens, WebkitInv, Typed
    <3>2. page'[t] = "live"
      BY <1>1 DEF PageOpens, WebkitInv, Typed
    <3>3. ASSUME NEW i \in 1 .. Len(queue')
          PROVE  /\ page'[queue'[i].target] # "new"
                 /\ queue'[i].kind = "destroyed" => page'[queue'[i].target] = "gone"
      <4>1. CASE i \in 1 .. Len(queue) /\ queue'[i] = queue[i]
        <5>1. queue[i].target \in Targets
          BY <4>1, Waiting DEF WebkitInv
        <5> QED BY <4>1, <5>1, <3>1 DEF WebkitInv, Opened
      <4>2. CASE queue'[i].kind = "created" /\ queue'[i].target = t
        BY <4>2, <3>2
      <4> QED BY <4>1, <4>2, <2>1, Announced DEF WebkitInv
    <3>4. \A th \in Threads : pc'[th] # "idle" =>
             /\ page'[target'[th]] # "new"
             /\ pc'[th] = "destroyed" => page'[target'[th]] = "gone"
      BY <1>1, <3>1 DEF PageOpens, threadVars, WebkitInv, Typed, Opened
    <3>5. \A s \in sessions' : page'[s[1]] # "new"
      BY <1>1, <3>1 DEF PageOpens, WebkitInv, Typed, Opened, Sessions
    <3> QED BY <3>3, <3>4, <3>5 DEF Opened
  <2>5. Known'
    BY <1>1 DEF PageOpens, WebkitInv, Typed, Opened, Known, tableVars, threadVars, Sessions
  <2> QED BY <2>2, <2>3, <2>4, <2>5 DEF WebkitInv
<1>2. CASE PageChanges(t)
  <2>1. Announce("changed", t) /\ "changed" \in Kinds
    BY <1>2 DEF PageChanges, Kinds
  <2>2. Typed'
    BY <1>2, <2>1, Announced DEF PageChanges, WebkitInv, Typed, tableVars, threadVars
  <2>3. Flights' /\ Owned' /\ NoStacking' /\ NoWaitUnderLock' /\ Known'
    BY <1>2 DEF PageChanges, WebkitInv, Flights, Owned, Known, NoStacking, NoWaitUnderLock, tableVars,
       threadVars
  <2>4. Opened'
    BY <1>2, <2>1, Announced DEF PageChanges, WebkitInv, Typed, Opened, tableVars, threadVars
  <2> QED BY <2>2, <2>3, <2>4 DEF WebkitInv
<1>3. CASE PageCloses(t)
  <2>1. Announce("destroyed", t) /\ "destroyed" \in Kinds
    BY <1>3 DEF PageCloses, Kinds
  <2>2. Typed'
    BY <1>3, <2>1, Announced DEF PageCloses, WebkitInv, Typed, tableVars, threadVars
  <2>3. Flights' /\ Owned' /\ NoStacking' /\ NoWaitUnderLock'
    BY <1>3 DEF PageCloses, WebkitInv, Flights, Owned, NoStacking, NoWaitUnderLock, tableVars,
       threadVars
  <2>4. Opened'
    <3>1. \A x \in Targets : (page[x] # "new" => page'[x] # "new") /\ (page[x] = "gone" => page'[x] = "gone")
      BY <1>3 DEF PageCloses, WebkitInv, Typed
    <3>2. page'[t] = "gone"
      BY <1>3 DEF PageCloses, WebkitInv, Typed
    <3>3. ASSUME NEW i \in 1 .. Len(queue')
          PROVE  /\ page'[queue'[i].target] # "new"
                 /\ queue'[i].kind = "destroyed" => page'[queue'[i].target] = "gone"
      <4>1. CASE i \in 1 .. Len(queue) /\ queue'[i] = queue[i]
        <5>1. queue[i].target \in Targets
          BY <4>1, Waiting DEF WebkitInv
        <5> QED BY <4>1, <5>1, <3>1 DEF WebkitInv, Opened
      <4>2. CASE queue'[i].kind = "destroyed" /\ queue'[i].target = t
        BY <4>2, <3>2
      <4> QED BY <4>1, <4>2, <2>1, Announced DEF WebkitInv
    <3>4. \A th \in Threads : pc'[th] # "idle" =>
             /\ page'[target'[th]] # "new"
             /\ pc'[th] = "destroyed" => page'[target'[th]] = "gone"
      BY <1>3, <3>1 DEF PageCloses, threadVars, WebkitInv, Typed, Opened
    <3>5. \A s \in sessions' : page'[s[1]] # "new"
      BY <1>3, <3>1 DEF PageCloses, WebkitInv, Typed, Opened, Sessions
    <3> QED BY <3>3, <3>4, <3>5 DEF Opened
  <2>5. Known'
    BY <1>3 DEF PageCloses, WebkitInv, Typed, Known, tableVars, threadVars, Sessions
  <2> QED BY <2>2, <2>3, <2>4, <2>5 DEF WebkitInv
<1> QED BY <1>1, <1>2, <1>3 DEF Page
(* A step of a handler keeps the invariant.                                  *)
LEMMA HandlerKeeps ==
  ASSUME WebkitInv, NEW th \in Threads, Handler(th)
  PROVE  WebkitInv'
<1> USE DEF Goto, browserVars, tableVars, threadVars, Kinds, Flying, Unscripted
<1>1. CASE Dispatch(th)
  <2>0. /\ pc'[th] \notin Flying
        /\ \A tj \in Threads \ {th} : pc'[tj] = pc[tj] /\ target'[tj] = target[tj]
    BY <1>1, Taken DEF Dispatch, WebkitInv
  <2>1. Typed'
    BY <1>1, Taken DEF Dispatch, WebkitInv, Typed
  <2>2. Flights'
    BY <1>1, Taken DEF Dispatch, WebkitInv, Flights
  <2>3. Opened'
    <3>1. ASSUME NEW i \in 1 .. Len(queue')
          PROVE  /\ page'[queue'[i].target] # "new"
                 /\ queue'[i].kind = "destroyed" => page'[queue'[i].target] = "gone"
      <4>1. i + 1 \in 1 .. Len(queue) /\ queue'[i] = queue[i + 1] /\ page' = page
        BY <1>1, Taken DEF Dispatch, WebkitInv
      <4> QED BY <4>1 DEF WebkitInv, Opened
    <3>2. /\ pc'[th] = queue[1].kind /\ target'[th] = queue[1].target
          /\ 1 \in 1 .. Len(queue) /\ page' = page /\ sessions' = sessions
      <4>1. pc'[th] = Head(queue).kind /\ target'[th] = Head(queue).target
        BY <1>1 DEF Dispatch, WebkitInv, Typed
      <4> QED BY <1>1, <4>1, Taken DEF Dispatch, WebkitInv
    <3>3. page'[target'[th]] # "new" /\ (pc'[th] = "destroyed" => page'[target'[th]] = "gone")
      BY <3>2 DEF WebkitInv, Opened
    <3> QED BY <2>0, <3>1, <3>2, <3>3 DEF WebkitInv, Opened
  <2>4. Owned'
    BY <1>1, <2>0 DEF Dispatch, WebkitInv, Owned
  <2>5. Known'
    BY <1>1, <2>0 DEF Dispatch, WebkitInv, Known
  <2>6. NoStacking' /\ NoWaitUnderLock'
    BY <1>1 DEF Dispatch, WebkitInv, NoStacking, NoWaitUnderLock
  <2> QED BY <2>1, <2>2, <2>3, <2>4, <2>5, <2>6 DEF WebkitInv
<1>2. CASE TargetDestroyed(th)
  <2>1. Typed'
    BY <1>2 DEF TargetDestroyed, Absent, WebkitInv, Typed
  <2>2. Flights'
    BY <1>2 DEF TargetDestroyed, WebkitInv, Flights
  <2>3. Opened'
    BY <1>2 DEF TargetDestroyed, WebkitInv, Opened
  <2>4. Owned'
    BY <1>2 DEF TargetDestroyed, Absent, WebkitInv, Owned
  <2>5. Known'
    BY <1>2 DEF TargetDestroyed, WebkitInv, Opened, Known
  <2>6. NoStacking' /\ NoWaitUnderLock'
    BY <1>2 DEF TargetDestroyed, WebkitInv, NoStacking, NoWaitUnderLock
  <2> QED BY <2>1, <2>2, <2>3, <2>4, <2>5, <2>6 DEF WebkitInv
<1>3. CASE TargetChanged(th)
  <2>1. Typed'
    BY <1>3 DEF TargetChanged, WebkitInv, Typed
  <2>2. Flights'
    BY <1>3 DEF TargetChanged, WebkitInv, Flights
  <2>3. Opened'
    BY <1>3 DEF TargetChanged, WebkitInv, Opened
  <2>4. Owned'
    BY <1>3 DEF TargetChanged, WebkitInv, Owned
  <2>5. Known'
    BY <1>3 DEF TargetChanged, WebkitInv, Known
  <2>6. NoStacking' /\ NoWaitUnderLock'
    BY <1>3 DEF TargetChanged, WebkitInv, NoStacking, NoWaitUnderLock
  <2> QED BY <2>1, <2>2, <2>3, <2>4, <2>5, <2>6 DEF WebkitInv
<1>4. CASE EnterFlight(th)
  <2>1. Typed'
    <3>1. CASE target[th] \in m_attachments_in_flight
      BY <1>4, <3>1 DEF EnterFlight, WebkitInv, Typed
    <3>2. CASE target[th] \notin m_attachments_in_flight
      BY <1>4, <3>2 DEF EnterFlight, WebkitInv, Typed
    <3> QED BY <3>1, <3>2
  <2>2. Flights'
    BY <1>4 DEF EnterFlight, WebkitInv, Typed, Flights
  <2>3. Opened'
    BY <1>4 DEF EnterFlight, WebkitInv, Typed, Opened
  <2>4. Owned'
    BY <1>4 DEF EnterFlight, WebkitInv, Typed, Owned
  <2>5. Known'
    BY <1>4 DEF EnterFlight, WebkitInv, Typed, Known
  <2>6. NoStacking' /\ NoWaitUnderLock'
    BY <1>4 DEF EnterFlight, WebkitInv, NoStacking, NoWaitUnderLock
  <2> QED BY <2>1, <2>2, <2>3, <2>4, <2>5, <2>6 DEF WebkitInv
<1>5. CASE LeaveFlight(th)
  <2>1. Typed'
    BY <1>5 DEF LeaveFlight, WebkitInv, Typed
  <2>2. Flights'
    BY <1>5 DEF LeaveFlight, WebkitInv, Typed, Flights
  <2>3. Opened'
    BY <1>5 DEF LeaveFlight, WebkitInv, Opened
  <2>4. Owned'
    BY <1>5 DEF LeaveFlight, WebkitInv, Owned
  <2>5. Known'
    BY <1>5 DEF LeaveFlight, WebkitInv, Known
  <2>6. NoStacking' /\ NoWaitUnderLock'
    BY <1>5 DEF LeaveFlight, WebkitInv, NoStacking, NoWaitUnderLock
  <2> QED BY <2>1, <2>2, <2>3, <2>4, <2>5, <2>6 DEF WebkitInv
<1>6. CASE Attach(th)
  <2>1. Typed'
    <3>1. m_attached_targets' \in
            [Targets -> [present : BOOLEAN, session_id : Sessions \cup {None},
                         script : BOOLEAN, attaching : BOOLEAN]]
      BY <1>6 DEF Attach, WebkitInv, Typed
    <3>2. /\ pc' \in [Threads -> Kinds \cup Flying \cup {"idle"}]
          /\ \A tj \in Threads : pc'[tj] # "idle" => target[tj] \in Targets
      BY <1>6 DEF Attach, WebkitInv, Typed
    <3> QED BY <1>6, <3>1, <3>2 DEF Attach, WebkitInv, Typed
  <2>2. Flights'
    BY <1>6 DEF Attach, WebkitInv, Typed, Flights
  <2>3. Opened'
    BY <1>6 DEF Attach, WebkitInv, Typed, Opened
  <2>4. Owned'
    BY <1>6, NoneAssumption DEF Attach, WebkitInv, Typed, Owned
  <2>5. Known'
    BY <1>6 DEF Attach, WebkitInv, Typed, Known
  <2>6. NoStacking' /\ NoWaitUnderLock'
    BY <1>6 DEF Attach, WebkitInv, NoStacking, NoWaitUnderLock
  <2> QED BY <2>1, <2>2, <2>3, <2>4, <2>5, <2>6 DEF WebkitInv
<1>7. CASE Attached(th)
  <2>1. Typed'
    BY <1>7 DEF Attached, NewSessions, WebkitInv, Typed, Sessions
  <2>2. Flights'
    BY <1>7 DEF Attached, WebkitInv, Flights
  <2>3. Opened'
    BY <1>7 DEF Attached, NewSessions, WebkitInv, Opened
  <2>4. Owned'
    BY <1>7 DEF Attached, NewSessions, WebkitInv, Typed, Owned
  <2>5. Known'
    BY <1>7 DEF Attached, WebkitInv, Known
  <2>6. NoStacking' /\ NoWaitUnderLock'
    BY <1>7 DEF Attached, WebkitInv, NoStacking, NoWaitUnderLock
  <2> QED BY <2>1, <2>2, <2>3, <2>4, <2>5, <2>6 DEF WebkitInv
<1>8. CASE Enabled(th)
  <2>1. Typed'
    BY <1>8 DEF Enabled, WebkitInv, Typed
  <2>2. Flights'
    BY <1>8 DEF Enabled, WebkitInv, Flights
  <2>3. Opened'
    BY <1>8 DEF Enabled, WebkitInv, Opened
  <2>4. Owned'
    BY <1>8 DEF Enabled, WebkitInv, Owned
  <2>5. Known'
    BY <1>8 DEF Enabled, WebkitInv, Known
  <2>6. NoStacking' /\ NoWaitUnderLock'
    BY <1>8 DEF Enabled, WebkitInv, NoStacking, NoWaitUnderLock
  <2> QED BY <2>1, <2>2, <2>3, <2>4, <2>5, <2>6 DEF WebkitInv
<1>9. CASE EnterSession(th)
  <2>1. Typed'
    BY <1>9 DEF EnterSession, Entry, WebkitInv, Typed
  <2>2. Flights'
    BY <1>9 DEF EnterSession, WebkitInv, Flights
  <2>3. Opened'
    BY <1>9 DEF EnterSession, WebkitInv, Opened
  <2>4. Owned'
    BY <1>9 DEF EnterSession, Entry, WebkitInv, Owned
  <2>5. Known'
    BY <1>9, NoneAssumption DEF EnterSession, Entry, WebkitInv, Typed, Flights, Known, Sessions
  <2>6. NoStacking' /\ NoWaitUnderLock'
    BY <1>9 DEF EnterSession, WebkitInv, NoStacking, NoWaitUnderLock
  <2> QED BY <2>1, <2>2, <2>3, <2>4, <2>5, <2>6 DEF WebkitInv
<1>10. CASE AttachFails(th)
  <2>1. Typed'
    BY <1>10 DEF AttachFails, NewSessions, WebkitInv, Typed, Sessions
  <2>2. Flights'
    BY <1>10 DEF AttachFails, WebkitInv, Flights
  <2>3. Opened'
    BY <1>10 DEF AttachFails, NewSessions, WebkitInv, Opened
  <2>4. Owned'
    BY <1>10 DEF AttachFails, WebkitInv, Owned
  <2>5. Known'
    BY <1>10 DEF AttachFails, WebkitInv, Known
  <2>6. NoStacking' /\ NoWaitUnderLock'
    BY <1>10 DEF AttachFails, WebkitInv, NoStacking, NoWaitUnderLock
  <2> QED BY <2>1, <2>2, <2>3, <2>4, <2>5, <2>6 DEF WebkitInv
<1>11. CASE AttachFailed(th)
  <2>1. Typed'
    <3>1. m_attached_targets' \in
            [Targets -> [present : BOOLEAN, session_id : Sessions \cup {None},
                         script : BOOLEAN, attaching : BOOLEAN]]
      BY <1>11 DEF AttachFailed, WebkitInv, Typed
    <3>2. /\ pc' \in [Threads -> Kinds \cup Flying \cup {"idle"}]
          /\ \A tj \in Threads : pc'[tj] # "idle" => target[tj] \in Targets
      BY <1>11 DEF AttachFailed, WebkitInv, Typed
    <3> QED BY <1>11, <3>1, <3>2 DEF AttachFailed, WebkitInv, Typed
  <2>2. Flights'
    BY <1>11 DEF AttachFailed, WebkitInv, Flights
  <2>3. Opened'
    BY <1>11 DEF AttachFailed, WebkitInv, Opened
  <2>4. Owned'
    BY <1>11 DEF AttachFailed, WebkitInv, Owned
  <2>5. Known'
    BY <1>11 DEF AttachFailed, WebkitInv, Known
  <2>6. NoStacking' /\ NoWaitUnderLock'
    BY <1>11 DEF AttachFailed, WebkitInv, NoStacking, NoWaitUnderLock
  <2> QED BY <2>1, <2>2, <2>3, <2>4, <2>5, <2>6 DEF WebkitInv
<1>12. CASE Bound(th)
  <2>1. Typed'
    BY <1>12 DEF Bound, WebkitInv, Typed
  <2>2. Flights'
    BY <1>12 DEF Bound, WebkitInv, Flights
  <2>3. Opened'
    BY <1>12 DEF Bound, WebkitInv, Opened
  <2>4. Owned'
    BY <1>12 DEF Bound, WebkitInv, Owned
  <2>5. Known'
    BY <1>12 DEF Bound, WebkitInv, Known
  <2>6. NoStacking' /\ NoWaitUnderLock'
    BY <1>12 DEF Bound, WebkitInv, NoStacking, NoWaitUnderLock
  <2> QED BY <2>1, <2>2, <2>3, <2>4, <2>5, <2>6 DEF WebkitInv
<1>13. CASE LockForRemoval(th)
  <2>0. pc' = [pc EXCEPT ![th] = "adding"] /\ UNCHANGED m_targets_mutex
    <3>1. ASSUME NEW t \in Mine(th), m_attached_targets[t].script
          PROVE  FALSE
      BY <1>13, <3>1 DEF LockForRemoval, Mine, WebkitInv, Owned
    <3> QED BY <1>13, <3>1 DEF LockForRemoval
  <2>1. Typed'
    BY <1>13, <2>0 DEF LockForRemoval, WebkitInv, Typed
  <2>2. Flights'
    BY <1>13, <2>0 DEF LockForRemoval, WebkitInv, Flights
  <2>3. Opened'
    BY <1>13, <2>0 DEF LockForRemoval, WebkitInv, Opened
  <2>4. Owned'
    BY <1>13, <2>0 DEF LockForRemoval, WebkitInv, Owned
  <2>5. Known'
    BY <1>13, <2>0 DEF LockForRemoval, WebkitInv, Known
  <2>6. NoStacking' /\ NoWaitUnderLock'
    BY <1>13, <2>0 DEF LockForRemoval, WebkitInv, NoStacking, NoWaitUnderLock
  <2> QED BY <2>1, <2>2, <2>3, <2>4, <2>5, <2>6 DEF WebkitInv
<1>14. CASE ScriptAdded(th)
  <2>1. Typed'
    <3>1. session[th] \in sessions
      BY <1>14 DEF ScriptAdded, WebkitInv, Owned
    <3> QED BY <1>14, <3>1 DEF ScriptAdded, WebkitInv, Typed
  <2>2. Flights'
    BY <1>14 DEF ScriptAdded, WebkitInv, Flights
  <2>3. Opened'
    BY <1>14 DEF ScriptAdded, WebkitInv, Opened
  <2>4. Owned'
    BY <1>14 DEF ScriptAdded, WebkitInv, Typed, Flights, Owned
  <2>5. Known'
    BY <1>14 DEF ScriptAdded, WebkitInv, Owned, Known
  <2>6. NoStacking' /\ NoWaitUnderLock'
    BY <1>14 DEF ScriptAdded, Alive, WebkitInv, Typed, Owned, Known, NoStacking, NoWaitUnderLock
  <2> QED BY <2>1, <2>2, <2>3, <2>4, <2>5, <2>6 DEF WebkitInv
<1>15. CASE SaveScript(th)
  <2>1. Typed'
    <3>1. m_attached_targets' \in
            [Targets -> [present : BOOLEAN, session_id : Sessions \cup {None},
                         script : BOOLEAN, attaching : BOOLEAN]]
      BY <1>15 DEF SaveScript, WebkitInv, Typed
    <3>2. /\ pc' \in [Threads -> Kinds \cup Flying \cup {"idle"}]
          /\ \A tj \in Threads : pc'[tj] # "idle" => target[tj] \in Targets
      BY <1>15 DEF SaveScript, WebkitInv, Typed
    <3> QED BY <1>15, <3>1, <3>2 DEF SaveScript, Mine, WebkitInv, Typed
  <2>2. Flights'
    BY <1>15 DEF SaveScript, WebkitInv, Flights
  <2>3. Opened'
    BY <1>15 DEF SaveScript, WebkitInv, Opened
  <2>4. Owned'
    BY <1>15 DEF SaveScript, Mine, WebkitInv, Owned
  <2>5. Known'
    BY <1>15 DEF SaveScript, WebkitInv, Typed, Known
  <2>6. NoStacking' /\ NoWaitUnderLock'
    BY <1>15 DEF SaveScript, WebkitInv, NoStacking, NoWaitUnderLock
  <2> QED BY <2>1, <2>2, <2>3, <2>4, <2>5, <2>6 DEF WebkitInv
<1>16. CASE Shown(th)
  <2>1. Typed'
    BY <1>16 DEF Shown, WebkitInv, Typed
  <2>2. Flights'
    BY <1>16 DEF Shown, WebkitInv, Flights
  <2>3. Opened'
    BY <1>16 DEF Shown, WebkitInv, Opened
  <2>4. Owned'
    BY <1>16 DEF Shown, WebkitInv, Owned
  <2>5. Known'
    BY <1>16 DEF Shown, WebkitInv, Known
  <2>6. NoStacking' /\ NoWaitUnderLock'
    BY <1>16 DEF Shown, WebkitInv, NoStacking, NoWaitUnderLock
  <2> QED BY <2>1, <2>2, <2>3, <2>4, <2>5, <2>6 DEF WebkitInv
<1>17. CASE ExposeFails(th)
  <2>1. Typed'
    <3>1. scripts' \subseteq sessions
      BY <1>17 DEF ExposeFails, WebkitInv, Typed, Owned
    <3> QED BY <1>17, <3>1 DEF ExposeFails, WebkitInv, Typed
  <2>2. Flights'
    BY <1>17 DEF ExposeFails, WebkitInv, Flights
  <2>3. Opened'
    BY <1>17 DEF ExposeFails, WebkitInv, Opened
  <2>4. Owned'
    BY <1>17 DEF ExposeFails, WebkitInv, Typed, Flights, Owned
  <2>5. Known'
    BY <1>17 DEF ExposeFails, WebkitInv, Owned, Known
  <2>6. NoStacking' /\ NoWaitUnderLock'
    BY <1>17 DEF ExposeFails, Alive, WebkitInv, Typed, Owned, Known, NoStacking, NoWaitUnderLock
  <2> QED BY <2>1, <2>2, <2>3, <2>4, <2>5, <2>6 DEF WebkitInv
<1> QED BY <1>1, <1>2, <1>3, <1>4, <1>5, <1>6, <1>7, <1>8, <1>9, <1>10, <1>11,
           <1>12, <1>13, <1>14, <1>15, <1>16, <1>17 DEF Handler

(* The invariant holds throughout.                                           *)
LEMMA WebkitInvariant == Spec => []WebkitInv
<1>1. WebkitInv /\ [Next]_vars => WebkitInv'
  BY PageKeeps, HandlerKeeps, WebkitUnchanged DEF Next
<1> QED BY <1>1, WebkitStarts, PTL DEF Spec

(* Scripts do not stack: however the handlers of a page overlap on the       *)
(* callback pool and whichever requests fail or are answered late,           *)
(* expose_cloude_to_ctx() never gives a page the script of two sessions.     *)
THEOREM ScriptsDoNotStack == Spec => []NoStacking
  BY WebkitInvariant, PTL DEF WebkitInv

(* The removal of an older script, which would await a response with         *)
(* m_targets_mutex held, never finds one: no handler waits for the browser   *)
(* under the lock that all of them need.                                     *)
THEOREM NeverWaitsUnderLock == Spec => []NoWaitUnderLock
  BY WebkitInvariant, PTL DEF WebkitInv
=============================================================================
