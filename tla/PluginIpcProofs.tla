--------------------------- MODULE PluginIpcProofs ---------------------------
(***************************************************************************)
(* Proofs about PluginIpc, for every bound and every combination of what   *)
(* the environment may do.                                                 *)
(*                                                                         *)
(* The facts that carry them:                                              *)
(*   Unloading   the count of on_unload calls agrees with the flag that    *)
(*               guards them;                                              *)
(*   Promises    an entry of m_pending, the entry the reader holds and     *)
(*               every id not yet handed out belong to promises nobody     *)
(*               has set;                                                  *)
(*   Destroying  how far the system and the reader are at each step of     *)
(*               the destructor;                                           *)
(*   Crashing    the verdict on the child agrees with the process;         *)
(*   Typing      m_pending holds the id of the running call at most;       *)
(*   Ordered     the requests still to be served are those of calls not    *)
(*               yet answered, in the order of their ids;                  *)
(*   Truthful    an answer under way is the one the child gave;            *)
(*   Delivery    the notifications delivered, deferred and still in the    *)
(*               socket follow one another without a gap.                  *)
(***************************************************************************)
EXTENDS PluginIpc, SequenceTheorems, TLAPS

Unloading ==
    /\ unloads \in Nat /\ unloads <= 1
    /\ unloads = 1 => g_on_unload_called

(* The child's thread is there exactly as long as its process runs; the      *)
(* reader has ended before the child is killed and waited for; and no call   *)
(* is being made once destruction has begun.                                 *)
Destroying ==
    /\ process \in {"running", "closing", "zombie", "reaped", "recycled"}
    /\ child = "gone" <=> process # "running"
    /\ stage \in {"kill", "reap", "gone"} => reader = "exit"
    /\ stage \in {"reap", "gone"} => process # "running"
    /\ stage = "gone" => m_pending = {} /\ process \in {"reaped", "recycled"}
    /\ stage \notin {"init", "published", "removed"} => step = "idle"

Crashing == crash = "reported" => process \in {"reaped", "recycled"}

Promises ==
    /\ DOMAIN outcome = Calls
    /\ m_next_id \in Nat /\ m_next_id >= 1
    /\ stage \in {"init", "published"} \/ (stage = "removed" /\ step = "idle")
          => m_next_id <= MaxCalls + 1
    /\ m_pending \subseteq Calls
    /\ \A c \in m_pending : c < m_next_id /\ outcome[c] = "none"
    /\ \A c \in Calls : c >= m_next_id => outcome[c] = "none"
    /\ reader = "set" => /\ entry.id \in Calls /\ entry.id < m_next_id
                         /\ entry.id \notin m_pending
                         /\ outcome[entry.id] = "none"
    /\ stage = "init" /\ step # "idle" => current = 0
    /\ step = "notify" => stage = "published"
    /\ stage = "init" /\ step = "idle" /\ returned[0] = "none"
          => m_pending = {} /\ outcome[0] = "none" /\ reader # "set"

-----------------------------------------------------------------------------
(* on_unload is counted only under MustUnload, and the same step raises the  *)
(* flag.                                                                     *)
LEMMA UnloadingInductive == Unloading /\ [Next]_vars => Unloading'
<1> SUFFICES ASSUME Unloading, [Next]_vars PROVE Unloading'
    OBVIOUS
<1> USE DEF Unloading
<1>1. ASSUME NEW frame, Runs(frame) PROVE Unloading'
  <2>1. CASE frame.body = "shutdown" /\ ~g_on_unload_called
    <3>1. unloads = 0
        BY <2>1
    <3>2. unloads' = 1
        BY <1>1, <2>1, <3>1 DEF Runs, MustUnload
    <3>3. g_on_unload_called'
        BY <1>1, <2>1, Zenon DEF Runs
    <3> QED
        BY <3>2, <3>3
  <2>2. CASE ~(frame.body = "shutdown" /\ ~g_on_unload_called)
    <3>1. unloads' = unloads
        BY <1>1, <2>2 DEF Runs, MustUnload
    <3>2. g_on_unload_called => g_on_unload_called'
        BY <1>1, Zenon DEF Runs
    <3> QED
        BY <3>1, <3>2
  <2> QED
      BY <2>1, <2>2
<1>2. CASE UNCHANGED luaVars
    BY <1>2 DEF luaVars
<1>3. CASE UNCHANGED <<unloads, g_on_unload_called>>
    BY <1>3
<1>4. CASE Drain
    BY <1>4, <1>1, <1>3 DEF Drain
<1>5. CASE LoopReads
    BY <1>5, <1>1, <1>3 DEF LoopReads
<1>6. CASE LeaveLoop
    BY <1>6, <1>1, <1>3 DEF LeaveLoop
<1>7. CASE CallStep \/ Evaluate \/ NotifyChild
    BY <1>7, <1>2 DEF CallStep, Evaluate, NotifyChild, SendInit, Shutdown, Send, SendOversized,
          SendFails, Resolved, TimesOut, Expired, NotifyWritten, Register, Return, outsideCall
<1>8. CASE ReaderStep \/ Served
    BY <1>8, <1>2 DEF ReaderStep, TakeResponse, SetPromise, TakeRequest, Served, SendAnswer,
          ReadFails, FailPending, DetectChildExit, outsideReader
<1>9. CASE Remove \/ OwnerStep
    BY <1>9, <1>2, <1>3 DEF Remove, OwnerStep, Close, Join, Kill, Reap
<1>10. CASE ReadInit \/ NoInit \/ CallReads \/ CallDisconnected \/ NotificationDone
            \/ Responds("ok") \/ ExitsNormally \/ LuaCalls \/ LuaLogs \/ Responds("error")
            \/ Resume \/ Crash \/ ParentDeathSignal
    BY <1>10, <1>3 DEF ReadInit, NoInit, CallReads, CallDisconnected, NotificationDone,
          Responds, ExitsNormally, LuaCalls, LuaLogs, Resume, Crash, ParentDeathSignal
<1>11. CASE ParentDies \/ BecomesZombie \/ ReapedBySteam \/ PidRecycled
    BY <1>11, <1>2 DEF ParentDies, BecomesZombie, ReapedBySteam, PidRecycled
<1>12. CASE UNCHANGED vars
    BY <1>12, <1>2 DEF vars
<1> QED
    BY <1>4, <1>5, <1>6, <1>7, <1>8, <1>9, <1>10, <1>11, <1>12 DEF Next, ChildStep

(* on_unload runs at most once, whether handle_shutdown() is reached through *)
(* SHUTDOWN, after the loop of main() or both, for plugins of every kind.    *)
THEOREM UnloadsAtMostOnce == Spec => []UnloadOnce
<1>1. Init => Unloading
    BY DEF Init, Unloading
<1>2. Unloading => UnloadOnce
    BY DEF Unloading, UnloadOnce
<1> QED
    BY <1>1, <1>2, UnloadingInductive, PTL DEF Spec

-----------------------------------------------------------------------------
(* The child's thread ends together with its process, the destructor joins   *)
(* the reader before it kills and waits for the child, and the verdict on a  *)
(* crash is given after the process was waited for.                          *)
LEMMA DestroyingInductive ==
    Destroying /\ Crashing /\ [Next]_vars => (Destroying /\ Crashing)'
<1> SUFFICES ASSUME Destroying, Crashing, [Next]_vars PROVE (Destroying /\ Crashing)'
    OBVIOUS
<1> USE DEF Destroying, Crashing, callVars, pendingVars, ownerVars, readerVars, luaVars,
            systemVars, outsideCall, outsideReader, outsideOwner, outsideChild
<1>1. CASE SendInit \/ Evaluate \/ Shutdown
    BY <1>1 DEF SendInit, Evaluate, Shutdown, Register
<1>2. CASE Send \/ SendOversized
    BY <1>2 DEF Send, SendOversized
<1>3. CASE TimesOut
    BY <1>3 DEF TimesOut
<1>4. ASSUME NEW result, step # "idle", Return(result) PROVE (Destroying /\ Crashing)'
    BY <1>4 DEF Return
<1>5. CASE SendFails \/ Resolved \/ Expired
    BY <1>5, <1>4 DEF SendFails, Resolved, Expired
<1>6. CASE NotifyChild \/ NotifyWritten
    BY <1>6 DEF NotifyChild, NotifyWritten
<1>7. CASE TakeResponse
    BY <1>7 DEF TakeResponse, Take, StillPending
<1>8. CASE SetPromise \/ TakeRequest \/ Served \/ SendAnswer \/ ReadFails \/ FailPending
    BY <1>8 DEF SetPromise, TakeRequest, Take, Served, SendAnswer, ReadFails, FailPending
<1>9. CASE DetectChildExit
    BY <1>9 DEF DetectChildExit, Verdict
<1>10. CASE Remove \/ Close \/ Join
    BY <1>10 DEF Remove, Close, Join
<1>11. CASE Kill
    BY <1>11 DEF Kill, Ends, Sweep
<1>12. CASE Reap
    BY <1>12 DEF Reap, Sweep
<1>13. ASSUME NEW how, child # "gone", Ends(how), UNCHANGED outsideChild
       PROVE (Destroying /\ Crashing)'
    BY <1>13 DEF Ends
<1>14. ASSUME child # "gone", child' # "gone", UNCHANGED <<systemVars, outsideChild>>
       PROVE (Destroying /\ Crashing)'
    BY <1>14
<1>15. CASE NoInit \/ ExitsNormally
    BY <1>15, <1>13 DEF NoInit, ExitsNormally
<1>3a. CASE Crash \/ ParentDeathSignal
    BY <1>3a, <1>13 DEF Crash, ParentDeathSignal
<1>17. CASE ReadInit \/ NotificationDone \/ Resume \/ Drain
    BY <1>17, <1>14 DEF ReadInit, NotificationDone, Resume, Drain, Runs
<1>18. CASE CallReads \/ CallDisconnected \/ LuaCalls \/ LuaLogs
    BY <1>18, <1>14 DEF CallReads, CallDisconnected, LuaCalls, LuaLogs
<1>19. CASE Responds("ok") \/ Responds("error")
    BY <1>19, <1>13, <1>14 DEF Responds
<1>20. CASE LoopReads
    BY <1>20, <1>14 DEF LoopReads, Runs
<1>21. CASE LeaveLoop
    BY <1>21, <1>13, <1>14 DEF LeaveLoop, Runs
<1>22. CASE ParentDies
    BY <1>22 DEF ParentDies
<1>23. CASE BecomesZombie \/ ReapedBySteam \/ PidRecycled
    BY <1>23 DEF BecomesZombie, ReapedBySteam, PidRecycled
<1>24. CASE UNCHANGED vars
    BY <1>24 DEF vars
<1> QED
    BY <1>1, <1>2, <1>3, <1>5, <1>6, <1>7, <1>8, <1>9, <1>10, <1>11, <1>12, <1>15, <1>3a,
       <1>17, <1>18, <1>19, <1>20, <1>21, <1>22, <1>23, <1>24
       DEF Next, CallStep, ReaderStep, OwnerStep, ChildStep

(* ~PluginProcess() leaves no reader thread, no unset promise and no child   *)
(* process behind, whoever reaps the child and however it ends.              *)
THEOREM DestructionIsComplete == Spec => []DestroyedMeansGone
<1>1. Init => Destroying /\ Crashing
    BY DEF Init, Destroying, Crashing
<1>2. Destroying => DestroyedMeansGone
    BY DEF Destroying, DestroyedMeansGone
<1> QED
    BY <1>1, <1>2, DestroyingInductive, PTL DEF Spec

(* detect_child_exit() never reports the crash of a child that is alive.     *)
THEOREM CrashReportsAreReal == Spec => []CrashIsReal
<1>1. Init => Destroying /\ Crashing
    BY DEF Init, Destroying, Crashing
<1>2. Crashing => CrashIsReal
    BY DEF Crashing, CrashIsReal
<1> QED
    BY <1>1, <1>2, DestroyingInductive, PTL DEF Spec

-----------------------------------------------------------------------------
(* The variables of Promises *)
promiseVars == <<m_pending, outcome, reader, entry, m_next_id, stage, step, returned, current>>

(* Promises is inductive, and whichever step sets a promise finds it unset.  *)
LEMMA PromisesInductive ==
    Promises /\ [Next]_vars
        => Promises' /\ \A c \in Calls : outcome[c] # "none" => outcome'[c] = outcome[c]
<1> DEFINE Kept == \A c \in Calls : outcome[c] # "none" => outcome'[c] = outcome[c]
<1> SUFFICES ASSUME Promises, [Next]_vars PROVE Promises' /\ Kept
    OBVIOUS
<1> USE DEF callVars, pendingVars, ownerVars, readerVars, luaVars, systemVars, outsideCall,
            outsideReader, outsideOwner, outsideChild
<1> USE BoundsAssumption DEF Calls
<1>1. ASSUME UNCHANGED promiseVars PROVE Promises' /\ Kept
    BY <1>1 DEF promiseVars, Promises
<1>2. CASE SendInit
    BY <1>2 DEF SendInit, Register, Promises
<1>3. ASSUME stage \in {"published", "removed"}, m_next_id <= MaxCalls \/ stage = "removed",
             Register(m_next_id, m_next_id + 1), UNCHANGED stage
      PROVE  Promises' /\ Kept
  <2>1. /\ m_next_id \in Calls /\ outcome[m_next_id] = "none"
        /\ UNCHANGED <<outcome, returned, reader, entry>>
        /\ m_pending' = m_pending \cup {m_next_id} /\ m_next_id' = m_next_id + 1
        /\ step' = "registered" /\ step = "idle"
      BY <1>3 DEF Register, Promises
  <2>2. /\ m_pending' \subseteq Calls
        /\ \A c \in m_pending' : c < m_next_id' /\ outcome'[c] = "none"
        /\ \A c \in Calls : c >= m_next_id' => outcome'[c] = "none"
      BY <2>1 DEF Promises
  <2>3. reader' = "set" => /\ entry'.id \in Calls /\ entry'.id < m_next_id'
                           /\ entry'.id \notin m_pending'
                           /\ outcome'[entry'.id] = "none"
      BY <2>1 DEF Promises
  <2> QED
      BY <1>3, <2>1, <2>2, <2>3 DEF Promises
<1>3a. CASE Evaluate \/ Shutdown
    BY <1>3a, <1>3 DEF Evaluate, Shutdown
<1>4. CASE Send \/ SendOversized \/ TimesOut \/ NotifyChild \/ NotifyWritten
    BY <1>4 DEF Send, SendOversized, TimesOut, NotifyChild, NotifyWritten, Promises
<1>5. ASSUME NEW result, result # "none", step # "idle", Return(result),
             m_pending' \in SUBSET m_pending
      PROVE  Promises' /\ Kept
    BY <1>5 DEF Return, Promises
<1>6. CASE SendFails \/ Resolved \/ Expired
    BY <1>6, <1>5 DEF SendFails, Resolved, Expired, Unregistered
<1>7. CASE TakeResponse
    BY <1>7 DEF TakeResponse, Take, StillPending, Promises
<1>8. CASE SetPromise
    BY <1>8 DEF SetPromise, Promises
<1>9. CASE TakeRequest \/ Served \/ SendAnswer \/ ReadFails \/ DetectChildExit
    BY <1>9 DEF TakeRequest, Take, Served, SendAnswer, ReadFails, DetectChildExit, Promises
<1>10. CASE FailPending
    BY <1>10 DEF FailPending, Promises
<1>11. CASE Remove \/ Close \/ Join
    BY <1>11 DEF Remove, Close, Join, Promises
<1>12. CASE Kill \/ Reap
  <2>1. /\ stage \in {"kill", "reap"} /\ stage' \in {"reap", "gone"}
        /\ Sweep \/ UNCHANGED <<m_pending, outcome>>
        /\ UNCHANGED <<reader, entry, m_next_id, step, returned, current>>
      BY <1>12 DEF Kill, Reap
  <2>2. CASE Sweep
      BY <2>1, <2>2 DEF Sweep, Promises
  <2>3. CASE UNCHANGED <<m_pending, outcome>>
      BY <2>1, <2>3 DEF Promises
  <2> QED
      BY <2>1, <2>2, <2>3
<1>13. CASE UNCHANGED outsideChild
    BY <1>13, <1>1 DEF promiseVars
<1>14. CASE ChildStep \/ LuaCalls \/ LuaLogs \/ Responds("error") \/ Resume \/ Crash
            \/ ParentDeathSignal \/ BecomesZombie \/ ReapedBySteam \/ PidRecycled
    BY <1>14, <1>13 DEF ChildStep, ReadInit, NoInit, CallReads, CallDisconnected,
          NotificationDone, Responds, Drain, LoopReads, LeaveLoop, ExitsNormally, LuaCalls,
          LuaLogs, Resume, Crash, ParentDeathSignal, BecomesZombie, ReapedBySteam, PidRecycled
<1>15. CASE ParentDies \/ UNCHANGED vars
    BY <1>15, <1>1 DEF ParentDies, vars, promiseVars
<1> QED
    BY <1>2, <1>3a, <1>4, <1>6, <1>7, <1>8, <1>9, <1>10, <1>11, <1>12, <1>14, <1>15
       DEF Next, CallStep, ReaderStep, OwnerStep

(* No promise of a PluginProcess is set twice, although the reader, the end  *)
(* of its loop and the destructor all set promises: std::future_error never  *)
(* escapes reader_thread_fn().                                               *)
THEOREM PromisesSetOnce == Spec => PromiseOnce
<1>1. Init => Promises
    BY BoundsAssumption DEF Init, Promises, Calls
<1>2. Promises /\ [Next]_vars => [\A c \in Calls : outcome[c] # "none"
                                     => outcome'[c] = outcome[c]]_vars
    BY PromisesInductive
<1> QED
    BY <1>1, <1>2, PromisesInductive, PTL DEF Spec, PromiseOnce

-----------------------------------------------------------------------------
(***************************************************************************)
(* Types.  What frames can be on their way in each direction, which call   *)
(* is being made, and that its entry is gone before the next one begins.   *)
(***************************************************************************)
ForChild == {f \in Frames : /\ f.kind = "notify" => f.id \in 1 .. MaxNotifies
                            /\ f.body = "init" => f.kind = "request" /\ f.id = 0}
Notifications == {f \in ForChild : f.kind = "notify"}
ForParent == {f \in Frames : f.kind = "response" => f.body \in {"ok", "error"}}

Typing ==
    /\ toChild \in Seq(ForChild)
    /\ m_deferred_notifications \in Seq(Notifications)
    /\ toParent \in Seq(ForParent)
    /\ reader = "set" => entry.body \in {"ok", "error"}
    /\ step \notin {"idle", "notify"} => current = m_next_id - 1 /\ (stage # "init" => current # 0)
    /\ step \in {"idle", "notify"} /\ stage \in {"init", "published", "removed"} => m_pending = {}
    /\ step = "notify" => notified < MaxNotifies /\ stage = "published"
    /\ \A c \in Calls : outcome[c] = "terminated" => stage = "gone"
    /\ stage = "init" => m_next_id = 1 /\ (step = "idle" => returned[0] = "none")

LEMMA SeqGrows ==
    ASSUME NEW S, NEW T, S \subseteq T, NEW s \in Seq(S)
    PROVE  s \in Seq(T)
  OBVIOUS

LEMMA TailAt ==
    ASSUME NEW S, NEW s \in Seq(S), s # <<>>
    PROVE  /\ Head(s) \in S /\ Head(s) = s[1] /\ Tail(s) \in Seq(S)
           /\ Len(s) \in Nat /\ Len(s) >= 1 /\ Len(Tail(s)) = Len(s) - 1
           /\ \A i \in 1 .. Len(s) - 1 : Tail(s)[i] = s[i + 1]
  BY HeadTailProperties, LenProperties, EmptySeq

LEMMA AppendAt ==
    ASSUME NEW S, NEW s \in Seq(S), NEW e \in S
    PROVE  /\ Append(s, e) \in Seq(S) /\ Len(s) \in Nat /\ Len(Append(s, e)) = Len(s) + 1
           /\ Append(s, e)[Len(s) + 1] = e
           /\ \A i \in 1 .. Len(s) : Append(s, e)[i] = s[i]
  BY AppendProperties, LenProperties

LEMMA FrameType ==
    ASSUME NEW k \in Kinds, NEW n \in 0 .. MaxCalls + MaxNotifies + MaxSaid + 1,
           NEW b \in {"init", "evaluate", "shutdown", "ok", "error", "none"}
    PROVE  /\ Frame(k, n, b) \in Frames
           /\ Frame(k, n, b).kind = k /\ Frame(k, n, b).id = n /\ Frame(k, n, b).body = b
  BY DEF Frame, Frames

(* The frames the two ends make.                                             *)
LEMMA FramesMade ==
    /\ \A c \in Calls, m \in {"init", "evaluate", "shutdown"} :
          (m = "init" => c = 0) => Frame("request", c, m) \in ForChild
    /\ \A c \in Calls : Frame("bad", c, "evaluate") \in ForChild
    /\ \A n \in 1 .. MaxNotifies : Frame("notify", n, "none") \in Notifications
    /\ \A f \in Frames : Frame("response", f.id, "ok") \in ForChild
    /\ \A n \in 0 .. MaxSaid : /\ Frame("request", n, "none") \in ForParent
                               /\ Frame("notify", n, "none") \in ForParent
                               /\ Frame("bad", n, "none") \in ForParent
    /\ \A f \in Frames, b \in {"ok", "error"} : Frame("response", f.id, b) \in ForParent
    /\ Coroutine \in Frames /\ Coroutine.kind = "notify" /\ Coroutine.id = 0
    /\ Unload \in Frames /\ Unload.kind = "request" /\ Unload.body = "shutdown"
  BY BoundsAssumption
     DEF Calls, Frame, Frames, Kinds, ForChild, Notifications, ForParent, Coroutine, Unload

LEMMA FrameFields ==
    ASSUME NEW f \in Frames
    PROVE  /\ f.kind \in Kinds /\ f.id \in 0 .. MaxCalls + MaxNotifies + MaxSaid + 1
           /\ f.body \in {"init", "evaluate", "shutdown", "ok", "error", "none"}
  BY DEF Frames

LEMMA InitTyping == Init => TypeOK /\ Typing
<1> SUFFICES ASSUME Init PROVE TypeOK /\ Typing
  OBVIOUS
<1>1. <<>> \in Seq(Frames) /\ <<>> \in Seq(ForChild) /\ <<>> \in Seq(Notifications)
      /\ <<>> \in Seq(ForParent)
  OBVIOUS
<1>2. 0 \in Calls /\ 1 \in 1 .. MaxCalls + 2 /\ 0 \in 0 .. MaxSaid /\ 0 \in 0 .. MaxNotifies
  BY BoundsAssumption DEF Calls
<1>3. TypeOK
  BY <1>1, <1>2, FramesMade DEF Init, TypeOK
<1>4. Typing
  BY <1>1, <1>2 DEF Init, Typing
<1> QED
  BY <1>3, <1>4

LEMMA NextTyping == TypeOK /\ Typing /\ Promises /\ Destroying /\ [Next]_vars => TypeOK' /\ Typing'
<1> SUFFICES ASSUME TypeOK, Typing, Promises, Destroying, [Next]_vars PROVE TypeOK' /\ Typing'
  OBVIOUS
<1> USE DEF callVars, pendingVars, ownerVars, readerVars, luaVars, systemVars, outsideCall,
            outsideReader, outsideOwner, outsideChild
<1>0. ForChild \subseteq Frames /\ ForParent \subseteq Frames /\ Notifications \subseteq ForChild
  BY DEF ForChild, ForParent, Notifications
<1>1. ASSUME NEW id \in Calls, NEW next \in 1 .. MaxCalls + 2, Register(id, next), id = next - 1,
             IF stage = "init" THEN next = 1 ELSE id # 0, UNCHANGED stage, m_shutdown_initiated' \in BOOLEAN,
             stage \in {"init", "published", "removed"}
      PROVE  TypeOK' /\ Typing'
  BY <1>1 DEF Register, TypeOK, Typing
<1>2. CASE SendInit
  <2>1. 0 \in Calls /\ m_next_id = 1
    BY <1>2, BoundsAssumption DEF SendInit, Typing, Calls
  <2>2. /\ Register(0, m_next_id) /\ stage = "init" /\ UNCHANGED stage
        /\ m_shutdown_initiated' \in BOOLEAN
    BY <1>2 DEF SendInit, TypeOK
  <2>3. m_next_id \in 1 .. MaxCalls + 2 /\ 0 = m_next_id - 1
    BY <2>1, BoundsAssumption
  <2> QED
    BY <1>1, <2>1, <2>2, <2>3
<1>3. CASE Evaluate \/ Shutdown
  <2>1. /\ stage \in {"published", "removed"} /\ step = "idle" /\ m_next_id <= MaxCalls + 1
        /\ Register(m_next_id, m_next_id + 1) /\ UNCHANGED stage
        /\ m_shutdown_initiated' \in BOOLEAN
    BY <1>3, BoundsAssumption DEF Evaluate, Shutdown, Register, TypeOK, Promises
  <2>2. /\ m_next_id \in Calls /\ m_next_id + 1 \in 1 .. MaxCalls + 2
        /\ m_next_id # 0 /\ m_next_id = (m_next_id + 1) - 1 /\ stage # "init"
    BY <2>1, BoundsAssumption DEF TypeOK, Calls
  <2> QED
    BY <1>1, <2>1, <2>2
<1>4. CASE Send \/ SendOversized
  <2>1. Method \in {"init", "evaluate", "shutdown"} /\ (Method = "init" => current = 0)
    <3>1. stage = "removed" => current # 0
      BY <1>4 DEF Send, SendOversized, Typing
    <3> QED
      BY <3>1, Zenon DEF Method
  <2>2. PICK f \in ForChild : toChild' = Append(toChild, f)
    BY <1>4, <2>1, FramesMade DEF Send, SendOversized, TypeOK
  <2>3. toChild' \in Seq(Frames) /\ toChild' \in Seq(ForChild)
    BY <1>0, <2>2, AppendAt DEF TypeOK, Typing
  <2>4. UNCHANGED <<current, m_next_id, returned, stage, m_shutdown_initiated, pendingVars,
                    notified, outsideCall>>
        /\ step = "registered" /\ step' \in {"waiting", "writing"}
    BY <1>4 DEF Send, SendOversized
  <2> QED
    BY <2>3, <2>4 DEF TypeOK, Typing
<1>5. ASSUME NEW result \in {"ok", "error", "disconnected", "send_failed", "timeout"},
             step \notin {"idle", "notify"}, Return(result), m_pending' \subseteq m_pending,
             stage' = "published" => m_pending' = {}
      PROVE  TypeOK' /\ Typing'
  <2>1. /\ stage \in {"init", "published", "removed"} /\ stage' \in {"published", "destroy"}
        /\ step' = "idle"
        /\ UNCHANGED <<current, m_next_id, m_shutdown_initiated, outcome, toChild, notified,
                       outsideCall>>
    BY <1>5 DEF Return, Destroying, TypeOK
  <2>2. returned' \in [Calls -> {"none", "ok", "error", "disconnected", "send_failed", "timeout"}]
    BY <1>5 DEF Return, TypeOK
  <2>3. m_pending' \subseteq {current'}
    BY <1>5, <2>1 DEF TypeOK
  <2> QED
    BY <1>5, <2>1, <2>2, <2>3 DEF TypeOK, Typing
<1>6. CASE SendFails \/ Expired
  <2>1. /\ step \notin {"idle", "notify"} /\ m_pending' = Unregistered
        /\ Return("send_failed") \/ Return("timeout")
    BY <1>6 DEF SendFails, Expired
  <2>2. stage' = "published" => stage = "published"
    BY <2>1 DEF Return
  <2>3. stage = "published" => current # 0
    BY <2>1 DEF Typing
  <2>4. m_pending' \subseteq m_pending /\ (stage' = "published" => m_pending' = {})
    BY <2>1, <2>2, <2>3 DEF Unregistered, TypeOK
  <2> QED
    BY <1>5, <2>1, <2>4
<1>7. CASE Resolved
  <2>1. step = "waiting" /\ outcome[current] # "none" /\ Return(outcome[current])
        /\ UNCHANGED m_pending
    BY <1>7 DEF Resolved
  <2>2. current \notin m_pending
    BY <2>1 DEF Promises
  <2>3. m_pending = {}
    BY <2>2 DEF TypeOK
  <2>4. outcome[current] # "terminated"
    BY <2>1 DEF Typing, TypeOK, Destroying
  <2>5. outcome[current] \in {"ok", "error", "disconnected", "send_failed", "timeout"}
    BY <2>1, <2>4 DEF TypeOK
  <2> QED
    BY <1>5, <2>1, <2>3, <2>5
<1>8. CASE TimesOut
  BY <1>8 DEF TimesOut, TypeOK, Typing
<1>9. CASE NotifyWritten
  <2>1. notified + 1 \in 1 .. MaxNotifies
    BY <1>9, BoundsAssumption DEF NotifyWritten, TypeOK, Typing
  <2>2. Frame("notify", notified + 1, "none") \in ForChild
    BY <1>0, <2>1, FramesMade
  <2>3. /\ Append(toChild, Frame("notify", notified + 1, "none")) \in Seq(Frames)
        /\ Append(toChild, Frame("notify", notified + 1, "none")) \in Seq(ForChild)
    BY <1>0, <2>2, AppendAt DEF TypeOK, Typing
  <2>4. /\ step = "notify" /\ step' = "idle"
        /\ \/ /\ notified' = notified + 1
              /\ toChild' = Append(toChild, Frame("notify", notified + 1, "none"))
           \/ UNCHANGED <<notified, toChild>>
        /\ UNCHANGED <<current, m_next_id, returned, pendingVars, stage, m_shutdown_initiated,
                       outsideCall>>
    BY <1>9 DEF NotifyWritten
  <2>5. stage = "published"
    BY <2>4 DEF Typing
  <2>6. toChild' \in Seq(Frames) /\ toChild' \in Seq(ForChild)
    BY <2>3, <2>4 DEF TypeOK, Typing
  <2>7. notified' \in 0 .. MaxNotifies
    BY <2>1, <2>4 DEF TypeOK
  <2> QED
    BY <2>4, <2>5, <2>6, <2>7 DEF TypeOK, Typing
<1>9a. CASE NotifyChild
  BY <1>9a DEF NotifyChild, TypeOK, Typing
<1>10. ASSUME Take PROVE /\ Head(toParent) \in ForParent /\ toParent' \in Seq(Frames)
                         /\ toParent' \in Seq(ForParent)
  BY <1>10, TailAt DEF Take, TypeOK, Typing
<1>11. CASE TakeResponse
  <2>1. /\ Take /\ Head(toParent).kind = "response" /\ entry' = Head(toParent)
        /\ m_pending' \subseteq m_pending /\ reader' \in {reader, "set"}
        /\ UNCHANGED <<outcome, crash, toChild, process, outsideReader>>
    BY <1>11 DEF TakeResponse, StillPending
  <2>2. entry' \in Frames /\ entry'.body \in {"ok", "error"}
    BY <1>0, <1>10, <2>1 DEF ForParent
  <2> QED
    BY <1>10, <2>1, <2>2 DEF TypeOK, Typing
<1>12. CASE SetPromise
  <2>1. entry.body \in {"ok", "error"}
    BY <1>12 DEF SetPromise, Typing
  <2>2. outcome' \in [Calls -> {"none", "ok", "error", "disconnected", "terminated"}]
        /\ \A c \in Calls : outcome'[c] = "terminated" => outcome[c] = "terminated"
    BY <1>12, <2>1 DEF SetPromise, TypeOK
  <2> QED
    BY <1>12, <2>2 DEF SetPromise, TypeOK, Typing
<1>13. CASE TakeRequest
  <2>1. /\ Take /\ entry' = Head(toParent) /\ reader' = "serve"
        /\ UNCHANGED <<pendingVars, crash, toChild, process, outsideReader>>
    BY <1>13 DEF TakeRequest
  <2> QED
    BY <1>0, <1>10, <2>1 DEF TypeOK, Typing
<1>14a. CASE Served
  BY <1>14a DEF Served, TypeOK, Typing
<1>14. CASE SendAnswer
  <2>1. Frame("response", entry.id, "ok") \in ForChild
    BY FramesMade DEF TypeOK
  <2>2. Append(toChild, Frame("response", entry.id, "ok")) \in Seq(ForChild)
    BY <2>1, AppendAt DEF Typing
  <2>3. toChild' \in Seq(ForChild)
    BY <1>14, <2>2 DEF SendAnswer, Typing
  <2>4. toChild' \in Seq(Frames)
    BY <1>0, <2>3, SeqGrows
  <2>5. reader' = "read" /\ UNCHANGED <<pendingVars, entry, crash, toParent, process, outsideReader>>
    BY <1>14 DEF SendAnswer
  <2> QED
    BY <2>3, <2>4, <2>5 DEF TypeOK, Typing
<1>15. CASE ReadFails
  BY <1>15 DEF ReadFails, TypeOK, Typing
<1>16. CASE FailPending
  <2>1. outcome' \in [Calls -> {"none", "ok", "error", "disconnected", "terminated"}]
        /\ \A c \in Calls : outcome'[c] = "terminated" => outcome[c] = "terminated"
    BY <1>16 DEF FailPending, TypeOK
  <2> QED
    BY <1>16, <2>1 DEF FailPending, TypeOK, Typing
<1>17. CASE DetectChildExit
  <2>1. /\ reader' \in {"detectAgain", "exit"} /\ crash' \in {crash, "none", "reported", "overlooked"}
        /\ process' \in {process, "reaped"}
        /\ UNCHANGED <<pendingVars, entry, toChild, toParent, outsideReader>>
    BY <1>17 DEF DetectChildExit, Verdict
  <2> QED
    BY <2>1 DEF TypeOK, Typing
<1>18. CASE Remove \/ Close \/ Join
  <2>1. CASE Remove
    BY <2>1 DEF Remove, TypeOK, Typing
  <2>2. CASE Close \/ Join
    BY <2>2 DEF Close, Join, TypeOK, Typing
  <2> QED
    BY <1>18, <2>1, <2>2
<1>19. CASE Kill \/ Reap
  <2>1. /\ stage \in {"kill", "reap"} /\ stage' \in {"gone", "reap"}
        /\ \/ stage' = "gone" /\ Sweep
           \/ stage' = "reap" /\ stage = "kill" /\ UNCHANGED pendingVars
        /\ process' \in {process, "closing", "reaped"} /\ exit' \in {exit, "signal"}
        /\ child' \in {child, "gone"}
        /\ UNCHANGED <<m_client_fd, job, awaiting, said, m_deferred_notifications, m_connected,
                       g_on_unload_called, answer, delivered, unloads, outsideOwner>>
    BY <1>19 DEF Kill, Reap, Ends
  <2>2. outcome' \in [Calls -> {"none", "ok", "error", "disconnected", "terminated"}]
        /\ m_pending' \subseteq m_pending
    BY <2>1 DEF Sweep, TypeOK
  <2>3. TypeOK'
    BY <2>1, <2>2 DEF TypeOK
  <2>4. \A c \in Calls : outcome'[c] = "terminated" => stage' = "gone"
    BY <2>1 DEF Typing
  <2> QED
    BY <2>1, <2>3, <2>4 DEF Typing
<1>20. CASE BecomesZombie \/ ReapedBySteam \/ PidRecycled
  <2>1. process' \in {"zombie", "reaped", "recycled"}
        /\ UNCHANGED <<luaVars, exit, toChild, toParent, outsideChild>>
    BY <1>20 DEF BecomesZombie, ReapedBySteam, PidRecycled
  <2> QED
    BY <2>1 DEF TypeOK, Typing
<1>22. CASE ParentDies
  <2>1. /\ alive' \in BOOLEAN
        /\ UNCHANGED <<callVars, pendingVars, ownerVars, readerVars, luaVars, systemVars,
                       toChild, toParent, notified>>
    BY <1>22 DEF ParentDies
  <2>2. TypeOK'
    BY <2>1 DEF TypeOK
  <2> QED
    BY <2>1, <2>2 DEF Typing
<1>21. CASE UNCHANGED vars
  BY <1>21 DEF vars, TypeOK, Typing
<1> DEFINE ChildTyped ==
             /\ child' \in {"start", "lua", "drain", "loop", "gone"} /\ job' \in Frames
             /\ awaiting' \in 0 .. MaxSaid /\ said' \in 0 .. MaxSaid
             /\ m_deferred_notifications' \in Seq(Notifications)
             /\ m_connected' \in BOOLEAN /\ g_on_unload_called' \in BOOLEAN
             /\ answer' \in [Calls -> {"none", "ok", "error"}]
             /\ delivered' \in 0 .. MaxNotifies /\ unloads' \in Nat
           ProcessTyped == process' \in {process, "closing"}
                           /\ exit' \in {exit, "zero", "nonzero", "signal"}
<1>23. ASSUME UNCHANGED outsideChild, ChildTyped, ProcessTyped,
              toChild' \in Seq(ForChild), toParent' \in Seq(ForParent)
       PROVE  TypeOK' /\ Typing'
  <2>1. /\ toChild' \in Seq(Frames) /\ toParent' \in Seq(Frames)
        /\ m_deferred_notifications' \in Seq(Frames)
    BY <1>0, <1>23, SeqGrows
  <2>2. TypeOK'
    BY <1>23, <2>1 DEF TypeOK
  <2> QED
    BY <1>23, <2>2 DEF Typing
<1>24. /\ toChild \in Seq(ForChild) /\ toParent \in Seq(ForParent)
       /\ m_deferred_notifications \in Seq(Notifications)
       /\ toChild # <<>> => Head(toChild) \in ForChild /\ Tail(toChild) \in Seq(ForChild)
       /\ m_deferred_notifications # <<>>
            => /\ Head(m_deferred_notifications) \in Notifications
               /\ Tail(m_deferred_notifications) \in Seq(Notifications)
  BY TailAt DEF Typing
<1>25. ASSUME NEW how \in {"zero", "nonzero", "signal"}, Ends(how),
              UNCHANGED <<job, awaiting, said, m_deferred_notifications, m_connected,
                          g_on_unload_called, answer, delivered, unloads, toChild, toParent,
                          outsideChild>>
       PROVE  TypeOK' /\ Typing'
  <2>1. ChildTyped /\ ProcessTyped
    BY <1>24, <1>25 DEF Ends, TypeOK
  <2> QED
    BY <1>23, <1>24, <1>25, <2>1
<1>26. CASE NoInit \/ ExitsNormally \/ Crash \/ ParentDeathSignal
  BY <1>25, <1>26 DEF NoInit, ExitsNormally, Crash, ParentDeathSignal
<1>27. CASE ReadInit
  <2>1. ChildTyped /\ ProcessTyped
    BY <1>0, <1>24, <1>27 DEF ReadInit, TypeOK
  <2> QED
    BY <1>23, <1>24, <1>27, <2>1 DEF ReadInit
<1>28. ASSUME NEW f \in ForParent, Say(f) PROVE toParent' \in Seq(ForParent)
  BY <1>24, <1>28, AppendAt DEF Say
<1>29. CASE LuaCalls \/ LuaLogs
  <2>1. said' = said + 1 /\ said' \in 0 .. MaxSaid
    BY <1>29, BoundsAssumption DEF LuaCalls, LuaLogs, TypeOK
  <2>2. /\ Frame("request", said', "none") \in ForParent
        /\ Frame("notify", said', "none") \in ForParent
        /\ Frame("bad", said', "none") \in ForParent
    BY <2>1, FramesMade
  <2>3. toParent' \in Seq(ForParent)
    BY <1>28, <1>29, <2>2 DEF LuaCalls, LuaLogs
  <2>4. ChildTyped
    BY <1>24, <1>29, <2>1 DEF LuaCalls, LuaLogs, TypeOK
  <2> QED
    BY <1>23, <1>24, <1>29, <2>3, <2>4 DEF LuaCalls, LuaLogs
<1>30. CASE CallReads
  <2>1. m_deferred_notifications' \in Seq(Notifications)
    <3>1. Head(toChild).kind = "notify" => Head(toChild) \in Notifications
      BY <1>24, <1>30 DEF CallReads, Notifications
    <3>2. Head(toChild).kind = "notify" => Defer(Head(toChild)) \in Seq(Notifications)
      BY <1>24, <3>1, AppendAt DEF Defer
    <3> QED
      BY <1>24, <1>30, <3>2 DEF CallReads
  <2>2. ChildTyped
    BY <1>24, <1>30, <2>1, BoundsAssumption DEF CallReads, TypeOK
  <2> QED
    BY <1>23, <1>24, <1>30, <2>2 DEF CallReads
<1>31. CASE CallDisconnected
  <2>0. m_connected' \in BOOLEAN
    BY <1>31, Zenon DEF CallDisconnected
  <2>1. ChildTyped
    BY <1>24, <1>31, <2>0, BoundsAssumption DEF CallDisconnected, TypeOK
  <2> QED
    BY <1>23, <1>24, <1>31, <2>1 DEF CallDisconnected
<1>31a. CASE NotificationDone \/ Resume
  <2>1. /\ child' \in {"loop", "drain", "lua"} /\ job' \in {job, Coroutine}
        /\ UNCHANGED <<awaiting, said, m_deferred_notifications, m_connected,
                       g_on_unload_called, answer, delivered, unloads, systemVars, toChild,
                       toParent, outsideChild>>
    BY <1>31a DEF NotificationDone, Resume
  <2>2. ChildTyped
    BY <1>24, <2>1, FramesMade DEF TypeOK
  <2> QED
    BY <1>23, <1>24, <2>1, <2>2
<1>32. ASSUME NEW body \in {"ok", "error"}, Responds(body) PROVE TypeOK' /\ Typing'
  <2>1. toParent' \in Seq(ForParent)
    BY <1>28, <1>32, FramesMade DEF Responds, TypeOK
  <2>2. answer' \in [Calls -> {"none", "ok", "error"}]
    BY <1>32 DEF Responds, TypeOK
  <2>3. ChildTyped /\ ProcessTyped
    BY <1>24, <1>32, <2>2 DEF Responds, Ends, TypeOK
  <2> QED
    BY <1>23, <1>24, <1>32, <2>1, <2>3 DEF Responds
<1>33. ASSUME NEW f \in ForChild \cup {Unload}, Runs(f)
       PROVE  /\ child' = "lua" /\ job' \in Frames /\ delivered' \in 0 .. MaxNotifies
              /\ g_on_unload_called' \in BOOLEAN /\ unloads' \in Nat
  <2>1. f \in Frames /\ (f.kind = "notify" => f.id \in 1 .. MaxNotifies)
    BY <1>0, FramesMade DEF ForChild
  <2>2. child' = "lua" /\ job' \in Frames /\ g_on_unload_called' \in BOOLEAN
    BY <1>33, <2>1 DEF Runs, TypeOK
  <2>3. delivered' \in 0 .. MaxNotifies /\ unloads' \in Nat
    BY <1>33, <2>1 DEF Runs, TypeOK
  <2> QED
    BY <2>2, <2>3
<1>34. CASE Drain
  <2>1. ChildTyped
    BY <1>0, <1>24, <1>33, <1>34 DEF Drain, TypeOK
  <2> QED
    BY <1>23, <1>24, <1>34, <2>1 DEF Drain
<1>35. CASE LoopReads
  <2>1. ChildTyped
    BY <1>24, <1>33, <1>35 DEF LoopReads, TypeOK
  <2> QED
    BY <1>23, <1>24, <1>35, <2>1 DEF LoopReads
<1>36. CASE LeaveLoop
  <2>1. ChildTyped /\ ProcessTyped
    BY <1>24, <1>33, <1>36 DEF LeaveLoop, Ends, TypeOK
  <2> QED
    BY <1>23, <1>24, <1>36, <2>1 DEF LeaveLoop
<1> QED
  BY <1>2, <1>3, <1>4, <1>6, <1>7, <1>8, <1>9, <1>9a, <1>11, <1>12, <1>13, <1>14, <1>14a, <1>15, <1>16, <1>17,
     <1>18, <1>19, <1>20, <1>21, <1>22, <1>26, <1>27, <1>29, <1>30, <1>31, <1>31a, <1>32, <1>34,
     <1>35, <1>36
     DEF Next, CallStep, ReaderStep, OwnerStep, ChildStep

LEMMA TypingInv == Spec => [](TypeOK /\ Typing /\ Promises /\ Destroying)
<1>1. Init => Promises /\ Destroying /\ Crashing
  BY BoundsAssumption DEF Init, Promises, Calls, Destroying, Crashing
<1> QED
  BY <1>1, InitTyping, NextTyping, PromisesInductive, DestroyingInductive, PTL DEF Spec

(* The state keeps its types, and m_pending holds no entry of a call that    *)
(* has returned: every way out of PluginProcess::call() erases its own.      *)
THEOREM TypeCorrect == Spec => []TypeOK
  BY TypingInv, PTL

-----------------------------------------------------------------------------
(***************************************************************************)
(* A caller gets the answer to its own call.  The ids of the requests the  *)
(* child has answered, of the one it is serving and of those still on the  *)
(* socket come in the order in which they were handed out, so no call is   *)
(* answered twice and a response stays true while it travels.              *)
(***************************************************************************)
Answered == {c \in Calls : answer[c] # "none"}
Serving == child = "lua" /\ job.kind = "request" /\ job # Unload

(* the ids below this one have been sent                                     *)
Sent == IF step = "registered" THEN m_next_id - 1 ELSE m_next_id

(* The requests in s are in the order of their ids, above those of A and     *)
(* below the bound.                                                          *)
Asks(s, A, bound) ==
    \A i \in 1 .. Len(s) : s[i].kind = "request" =>
        /\ s[i].id \in Calls /\ s[i].id < bound
        /\ \A c \in A : c < s[i].id
        /\ \A j \in 1 .. Len(s) : s[j].kind = "request" /\ i < j => s[i].id < s[j].id

Ordered ==
    /\ \A c \in Answered : c < Sent
    /\ Asks(toChild, Answered, Sent)
    /\ Serving => /\ job.id \in Calls /\ job.id < Sent
                  /\ \A c \in Answered : c < job.id
                  /\ Asks(toChild, Answered \cup {job.id}, Sent)
    /\ stage = "init" /\ step \in {"idle", "registered"}
          => /\ toChild = <<>> /\ toParent = <<>> /\ Answered = {}
             /\ child \in {"start", "gone"} /\ reader \notin {"serve", "answer"}

Honest == {f \in ForParent : f.kind = "response" => f.id \in Calls /\ answer[f.id] = f.body}

Truthful ==
    /\ toParent \in Seq(Honest)
    /\ reader = "set" => answer[entry.id] = entry.body
    /\ OutcomeJustified

LEMMA AsksTail ==
    ASSUME NEW s \in Seq(ForChild), s # <<>>, NEW A \in SUBSET Calls, NEW b \in Int,
           Asks(s, A, b)
    PROVE  /\ Asks(Tail(s), A, b)
           /\ Head(s).kind = "request" => /\ Head(s).id \in Calls /\ Head(s).id < b
                                          /\ \A c \in A : c < Head(s).id
                                          /\ Asks(Tail(s), A \cup {Head(s).id}, b)
<1>1. /\ Len(s) \in Nat /\ Len(s) >= 1 /\ Len(Tail(s)) = Len(s) - 1 /\ Head(s) = s[1]
      /\ \A i \in 1 .. Len(s) - 1 : Tail(s)[i] = s[i + 1]
  BY TailAt
<1>2. \A i \in 1 .. Len(Tail(s)) : /\ i + 1 \in 1 .. Len(s) /\ Tail(s)[i] = s[i + 1]
                                   /\ 1 < i + 1
                                   /\ \A j \in 1 .. Len(Tail(s)) : i < j => i + 1 < j + 1
  BY <1>1
<1>3. Asks(Tail(s), A, b)
  BY <1>2 DEF Asks
<1>4. ASSUME Head(s).kind = "request"
      PROVE  /\ Head(s).id \in Calls /\ Head(s).id < b
             /\ \A c \in A : c < Head(s).id
             /\ \A i \in 1 .. Len(Tail(s)) : Tail(s)[i].kind = "request" => Head(s).id < Tail(s)[i].id
  <2>1. 1 \in 1 .. Len(s) /\ s[1].kind = "request"
    BY <1>1, <1>4
  <2>2. /\ s[1].id \in Calls /\ s[1].id < b /\ \A c \in A : c < s[1].id
        /\ \A j \in 1 .. Len(s) : s[j].kind = "request" /\ 1 < j => s[1].id < s[j].id
    BY <2>1 DEF Asks
  <2> QED
    BY <1>1, <1>2, <2>2
<1>5. Head(s).kind = "request" => Asks(Tail(s), A \cup {Head(s).id}, b)
  BY <1>3, <1>4 DEF Asks
<1> QED
  BY <1>3, <1>4, <1>5

LEMMA AsksAppend ==
    ASSUME NEW s \in Seq(ForChild), NEW f \in ForChild, NEW A \in SUBSET Calls, NEW b \in Int,
           Asks(s, A, b)
    PROVE  /\ f.kind # "request" => Asks(Append(s, f), A, b)
           /\ f.id \in Calls /\ f.id = b /\ (\A c \in A : c < b) => Asks(Append(s, f), A, b + 1)
<1>1. /\ Len(s) \in Nat /\ Len(Append(s, f)) = Len(s) + 1
      /\ Append(s, f)[Len(s) + 1] = f
      /\ \A i \in 1 .. Len(s) : Append(s, f)[i] = s[i]
  BY AppendAt
<1>2. \A i \in 1 .. Len(Append(s, f)) :
         \/ i \in 1 .. Len(s) /\ Append(s, f)[i] = s[i]
         \/ /\ i = Len(s) + 1 /\ Append(s, f)[i] = f
            /\ \A j \in 1 .. Len(Append(s, f)) : ~(i < j)
  BY <1>1
<1>3. Calls \subseteq Int
  BY BoundsAssumption DEF Calls
<1>4. ASSUME f.kind # "request" PROVE Asks(Append(s, f), A, b)
  BY <1>2, <1>4 DEF Asks
<1>5. ASSUME f.id \in Calls, f.id = b, \A c \in A : c < b PROVE Asks(Append(s, f), A, b + 1)
  <2>1. \A n \in Calls : n < b => n < b + 1
    BY <1>3
  <2>2. b < b + 1
    OBVIOUS
  <2> QED
    BY <1>2, <1>5, <2>1, <2>2 DEF Asks
<1> QED
  BY <1>4, <1>5

(* Fewer ids below, a higher bound.                                          *)
LEMMA AsksWeaken ==
    ASSUME NEW s \in Seq(ForChild), NEW A \in SUBSET Calls, NEW B \in SUBSET Calls,
           NEW b \in Int, NEW c \in Int, Asks(s, A, b), B \subseteq A, b <= c
    PROVE  Asks(s, B, c)
<1>1. \A n \in Calls : n < b => n < c
  BY BoundsAssumption DEF Calls
<1> QED
  BY <1>1 DEF Asks

LEMMA NextOrdered == TypeOK /\ Typing /\ Ordered /\ [Next]_vars => Ordered'
<1> SUFFICES ASSUME TypeOK, Typing, Ordered, [Next]_vars PROVE Ordered'
  OBVIOUS
<1> USE DEF callVars, pendingVars, ownerVars, readerVars, luaVars, systemVars, outsideCall,
            outsideReader, outsideOwner, outsideChild
<1> DEFINE Starting == stage = "init" /\ step \in {"idle", "registered"}
<1>0. /\ Answered \in SUBSET Calls /\ Calls \subseteq Int /\ Sent \in Int /\ m_next_id \in Int
      /\ toChild \in Seq(ForChild) /\ ForChild \subseteq Frames
      /\ (Serving => Answered \cup {job.id} \in SUBSET Calls)
  BY BoundsAssumption DEF Answered, Calls, Sent, TypeOK, Typing, ForChild, Ordered
<1>1. ASSUME UNCHANGED <<toChild, answer>>, child' # "lua" \/ UNCHANGED <<child, job>>,
             Sent' \in Int, Sent <= Sent',
             Starting' => /\ toParent' = <<>> /\ child' \in {"start", "gone"}
                          /\ reader' \notin {"serve", "answer"} /\ Starting
      PROVE  Ordered'
  <2>1. Answered' = Answered
    BY <1>1 DEF Answered
  <2>2. \A c \in Answered' : c < Sent'
    BY <1>0, <1>1, <2>1 DEF Ordered
  <2>3. Asks(toChild', Answered', Sent')
    BY <1>0, <1>1, <2>1, AsksWeaken DEF Ordered
  <2>4. ASSUME Serving' PROVE /\ job'.id \in Calls /\ job'.id < Sent'
                              /\ \A c \in Answered' : c < job'.id
                              /\ Asks(toChild', Answered' \cup {job'.id}, Sent')
    <3>1. Serving /\ job' = job
      BY <1>1, <2>4 DEF Serving
    <3>2. /\ job.id \in Calls /\ job.id < Sent
          /\ \A c \in Answered : c < job.id
          /\ Asks(toChild, Answered \cup {job.id}, Sent)
      BY <3>1 DEF Ordered
    <3>3. Asks(toChild, Answered \cup {job.id}, Sent')
      BY <1>0, <1>1, <3>1, <3>2, AsksWeaken
    <3>4. job.id < Sent'
      <4>1. job.id \in Int /\ job.id < Sent
        BY <1>0, <3>2
      <4> QED
        BY <1>0, <1>1, <4>1
    <3> QED
      BY <1>1, <2>1, <3>1, <3>2, <3>3, <3>4
  <2>5. Starting' => /\ toChild' = <<>> /\ toParent' = <<>> /\ Answered' = {}
                     /\ child' \in {"start", "gone"} /\ reader' \notin {"serve", "answer"}
    BY <1>1, <2>1 DEF Ordered
  <2> QED
    BY <2>2, <2>3, <2>4, <2>5 DEF Ordered
<1>2. Starting => /\ toChild = <<>> /\ toParent = <<>> /\ Answered = {}
                  /\ child \in {"start", "gone"} /\ reader \notin {"serve", "answer"}
  BY DEF Ordered
<1>3. ASSUME UNCHANGED <<toChild, answer, child, job, m_next_id, step, stage, toParent>>,
             reader' \in {"serve", "answer"} => reader \in {"serve", "answer"}
      PROVE  Ordered'
  BY <1>0, <1>1, <1>2, <1>3 DEF Sent
<1>4. CASE SendInit
  <2>1. /\ m_next_id = 1 /\ Starting /\ Starting'
        /\ UNCHANGED <<toChild, answer, child, toParent, reader>>
    BY <1>4 DEF SendInit, Register, Typing
  <2>2. toChild' = <<>> /\ Answered' = {} /\ ~Serving' /\ Len(toChild') = 0
    BY <1>2, <2>1 DEF Answered, Serving
  <2> QED
    BY <1>2, <2>1, <2>2 DEF Ordered, Asks
<1>5. CASE Evaluate \/ Shutdown
  <2>1. /\ UNCHANGED <<toChild, answer, child, job, stage>> /\ stage # "init"
        /\ m_next_id' = m_next_id + 1 /\ step = "idle" /\ step' = "registered"
    BY <1>5 DEF Evaluate, Shutdown, Register
  <2>2. Sent' = Sent
    BY <1>0, <2>1 DEF Sent
  <2> QED
    BY <1>0, <1>1, <2>1, <2>2
<1>6. ASSUME NEW f \in ForChild, toChild' = Append(toChild, f), ~Starting',
             UNCHANGED <<answer, child, job>>,
             \/ f.kind # "request" /\ Sent' = Sent
             \/ f.id \in Calls /\ f.id = Sent /\ Sent' = Sent + 1
      PROVE  Ordered'
  <2>1. Answered' = Answered /\ (Serving' <=> Serving) /\ \A c \in Answered : c < Sent
    BY <1>6 DEF Answered, Serving, Ordered
  <2>2. \A c \in Answered' : c < Sent'
    BY <1>0, <1>6, <2>1
  <2>3. Asks(toChild', Answered', Sent')
    BY <1>0, <1>6, <2>1, AsksAppend DEF Ordered
  <2>4. ASSUME Serving
        PROVE  /\ job.id \in Calls /\ job.id < Sent' /\ \A c \in Answered : c < job.id
               /\ Asks(toChild', Answered \cup {job.id}, Sent')
    <3>1. /\ job.id \in Calls /\ job.id < Sent /\ \A c \in Answered : c < job.id
          /\ Asks(toChild, Answered \cup {job.id}, Sent)
      BY <2>4 DEF Ordered
    <3>2. \A c \in Answered \cup {job.id} : c < Sent
      BY <2>1, <3>1
    <3>3. Asks(toChild', Answered \cup {job.id}, Sent')
      BY <1>0, <1>6, <2>4, <3>1, <3>2, AsksAppend
    <3>4. job.id < Sent'
      <4>1. job.id \in Int /\ job.id < Sent
        BY <1>0, <3>1
      <4> QED
        BY <1>0, <1>6, <4>1
    <3> QED
      BY <3>1, <3>3, <3>4
  <2> QED
    BY <1>6, <2>1, <2>2, <2>3, <2>4 DEF Ordered
<1>7. CASE Send \/ SendOversized
  <2>1. /\ step = "registered" /\ step' \in {"waiting", "writing"} /\ current = m_next_id - 1
        /\ UNCHANGED <<m_next_id, answer, child, job>>
    BY <1>7 DEF Send, SendOversized, Typing
  <2>2. Sent = current /\ Sent' = Sent + 1 /\ current \in Calls
    BY <1>0, <2>1 DEF Sent, TypeOK
  <2>3. Method \in {"init", "evaluate", "shutdown"} /\ (Method = "init" => current = 0)
    <3>1. stage = "removed" => current # 0
      BY <1>7 DEF Send, SendOversized, Typing
    <3> QED
      BY <3>1, Zenon DEF Method
  <2>4. PICK f \in ForChild : toChild' = Append(toChild, f) /\ f.id = current
    <3>1. /\ Frame("request", current, Method) \in ForChild
          /\ Frame("request", current, Method).id = current
      BY <2>2, <2>3, FramesMade DEF Frame
    <3>2. /\ Frame("bad", current, "evaluate") \in ForChild
          /\ Frame("bad", current, "evaluate").id = current
      BY <2>2, FramesMade DEF Frame
    <3> QED
      BY <1>7, <3>1, <3>2 DEF Send, SendOversized
  <2> QED
    BY <1>6, <2>1, <2>2, <2>4
<1>8. CASE SendFails \/ Resolved \/ Expired
  <2>1. /\ UNCHANGED <<toChild, answer, child, job, m_next_id>>
        /\ step' = "idle" /\ stage' # "init"
    BY <1>8 DEF SendFails, Resolved, Expired, Return
  <2>2. Sent' \in Int /\ Sent <= Sent'
    BY <1>0, <2>1 DEF Sent
  <2> QED
    BY <1>1, <2>1, <2>2
<1>9. CASE TimesOut
  <2>1. /\ UNCHANGED <<toChild, answer, child, job, m_next_id>>
        /\ step = "waiting" /\ step' = "expired"
    BY <1>9 DEF TimesOut
  <2> QED
    BY <1>0, <1>1, <2>1 DEF Sent
<1>10. CASE NotifyWritten
  <2>1. /\ UNCHANGED <<answer, child, job, stage, m_next_id>> /\ stage = "published"
        /\ step = "notify" /\ step' = "idle"
        /\ toChild' \in {toChild, Append(toChild, Frame("notify", notified + 1, "none"))}
        /\ notified + 1 \in 1 .. MaxNotifies
    BY <1>10, BoundsAssumption DEF NotifyWritten, TypeOK, Typing
  <2>2. /\ Frame("notify", notified + 1, "none") \in ForChild
        /\ Frame("notify", notified + 1, "none").kind # "request"
    BY <2>1, FramesMade DEF Notifications, Frame
  <2>3. Sent' = Sent /\ ~Starting'
    BY <2>1 DEF Sent
  <2> QED
    BY <1>0, <1>1, <1>6, <2>1, <2>2, <2>3
<1>10a. CASE NotifyChild
  <2>1. /\ UNCHANGED <<toChild, answer, child, job, m_next_id, stage>>
        /\ stage = "published" /\ step = "idle" /\ step' = "notify"
    BY <1>10a DEF NotifyChild
  <2> QED
    BY <1>0, <1>1, <2>1 DEF Sent
<1>11a. CASE Served
  <2>1. /\ UNCHANGED <<answer, child, job, stage, step, m_next_id, toParent, toChild>>
        /\ reader = "serve"
    BY <1>11a DEF Served
  <2> QED
    BY <1>0, <1>1, <1>2, <2>1 DEF Sent
<1>11. CASE SendAnswer
  <2>1. /\ UNCHANGED <<answer, child, job, stage, step, m_next_id, toParent>>
        /\ reader = "answer" /\ reader' = "read" /\ ~Starting
        /\ toChild' \in {toChild, Append(toChild, Frame("response", entry.id, "ok"))}
    BY <1>2, <1>11 DEF SendAnswer
  <2>2. /\ Frame("response", entry.id, "ok") \in ForChild
        /\ Frame("response", entry.id, "ok").kind # "request"
    BY FramesMade DEF TypeOK, Frame
  <2>3. Sent' = Sent
    BY <2>1 DEF Sent
  <2> QED
    BY <1>3, <1>6, <2>1, <2>2, <2>3
<1>12. CASE TakeResponse \/ TakeRequest
  <2>1. /\ UNCHANGED <<answer, child, job, stage, step, m_next_id, toChild>>
        /\ toParent # <<>>
    BY <1>12 DEF TakeResponse, TakeRequest, Take
  <2> QED
    BY <1>0, <1>1, <1>2, <2>1 DEF Sent
<1>13. CASE SetPromise \/ ReadFails \/ FailPending \/ DetectChildExit
  BY <1>3, <1>13 DEF SetPromise, ReadFails, FailPending, DetectChildExit
<1>14. CASE Remove \/ Close \/ Join
  <2>1. /\ UNCHANGED <<toChild, answer, child, job, m_next_id, step, toParent, reader>>
        /\ stage' # "init"
    BY <1>14 DEF Remove, Close, Join
  <2> QED
    BY <1>0, <1>1, <2>1 DEF Sent
<1>15. CASE Kill \/ Reap
  <2>1. /\ UNCHANGED <<toChild, answer, job, m_next_id, step, toParent, reader>>
        /\ child' \in {child, "gone"} /\ stage' # "init"
    BY <1>15 DEF Kill, Reap, Ends
  <2> QED
    BY <1>0, <1>1, <2>1 DEF Sent
<1>16. CASE ParentDies \/ BecomesZombie \/ ReapedBySteam \/ PidRecycled \/ UNCHANGED vars
  BY <1>3, <1>16 DEF ParentDies, BecomesZombie, ReapedBySteam, PidRecycled, vars
<1>17. ASSUME UNCHANGED <<step, m_next_id, stage, reader>>
       PROVE  Sent' = Sent /\ (Starting' <=> Starting)
  BY <1>17 DEF Sent
<1>18. ASSUME child # "start", child # "gone" PROVE ~Starting
  BY <1>2, <1>18
<1>19. CASE NoInit \/ ExitsNormally \/ Crash \/ ParentDeathSignal
  <2>1. /\ UNCHANGED <<toChild, answer, job, m_next_id, step, stage, toParent, reader>>
        /\ child' = "gone"
    BY <1>19 DEF NoInit, ExitsNormally, Crash, ParentDeathSignal, Ends
  <2> QED
    BY <1>0, <1>1, <1>2, <1>17, <2>1
<1>20. CASE LuaCalls \/ LuaLogs \/ CallDisconnected
  <2>1. UNCHANGED <<toChild, answer, child, job, m_next_id, step, stage, reader>> /\ child = "lua"
    BY <1>20 DEF LuaCalls, LuaLogs, CallDisconnected
  <2> QED
    BY <1>0, <1>1, <1>17, <1>18, <2>1
<1>21. ASSUME child \notin {"start", "gone"}, UNCHANGED <<step, m_next_id, stage, reader>>,
              UNCHANGED <<toChild, answer>>, ~Serving'
       PROVE  Ordered'
  <2>1. Answered' = Answered /\ Sent' = Sent /\ ~Starting'
    BY <1>17, <1>18, <1>21 DEF Answered
  <2> QED
    BY <1>21, <2>1 DEF Ordered
<1>22. CASE NotificationDone \/ Resume
  <2>1. /\ UNCHANGED <<toChild, answer, m_next_id, step, stage, reader>>
        /\ child \in {"lua", "loop"} /\ (child' = "lua" => job' = Coroutine)
    BY <1>22 DEF NotificationDone, Resume
  <2>2. ~Serving'
    BY <2>1, FramesMade DEF Serving
  <2> QED
    BY <1>21, <2>1, <2>2
<1>23. CASE Drain
  <2>1. /\ UNCHANGED <<toChild, answer, m_next_id, step, stage, reader>> /\ child = "drain"
        /\ \/ child' = "loop"
           \/ m_deferred_notifications # <<>> /\ job' = Head(m_deferred_notifications)
    BY <1>23 DEF Drain, Runs
  <2>2. m_deferred_notifications # <<>> => Head(m_deferred_notifications).kind = "notify"
    BY TailAt DEF Typing, Notifications
  <2>3. ~Serving'
    BY <2>1, <2>2 DEF Serving
  <2> QED
    BY <1>21, <2>1, <2>3
<1>24. CASE LeaveLoop
  <2>1. /\ UNCHANGED <<toChild, answer, m_next_id, step, stage, reader>> /\ child = "loop"
        /\ (child' = "lua" => job' = Unload)
    BY <1>24 DEF LeaveLoop, Runs, Ends
  <2>2. ~Serving'
    BY <2>1 DEF Serving
  <2> QED
    BY <1>21, <2>1, <2>2
<1>25. ASSUME toChild # <<>>, toChild' = Tail(toChild), UNCHANGED <<answer, step, m_next_id,
              stage, reader>>,
              \/ ~Serving'
              \/ Head(toChild).kind = "request" /\ job' = Head(toChild)
              \/ Serving /\ job' = job
       PROVE  Ordered'
  <2>1. Answered' = Answered /\ Sent' = Sent /\ ~Starting'
    BY <1>2, <1>17, <1>25 DEF Answered
  <2>2. \A c \in Answered' : c < Sent'
    BY <2>1 DEF Ordered
  <2>3. Asks(toChild', Answered', Sent')
    BY <1>0, <1>25, <2>1, AsksTail DEF Ordered
  <2>4. ASSUME Head(toChild).kind = "request", job' = Head(toChild)
        PROVE  /\ job'.id \in Calls /\ job'.id < Sent' /\ \A c \in Answered' : c < job'.id
               /\ Asks(toChild', Answered' \cup {job'.id}, Sent')
    <3>1. /\ Head(toChild).id \in Calls /\ Head(toChild).id < Sent
          /\ \A c \in Answered : c < Head(toChild).id
          /\ Asks(Tail(toChild), Answered \cup {Head(toChild).id}, Sent)
      BY <1>0, <1>25, <2>4, AsksTail DEF Ordered
    <3> QED
      BY <1>25, <2>1, <2>4, <3>1
  <2>5. ASSUME Serving, job' = job
        PROVE  /\ job'.id \in Calls /\ job'.id < Sent' /\ \A c \in Answered' : c < job'.id
               /\ Asks(toChild', Answered' \cup {job'.id}, Sent')
    <3>1. /\ job.id \in Calls /\ job.id < Sent /\ \A c \in Answered : c < job.id
          /\ Asks(toChild, Answered \cup {job.id}, Sent)
      BY <2>5 DEF Ordered
    <3>2. Asks(Tail(toChild), Answered \cup {job.id}, Sent)
      BY <1>0, <1>25, <2>5, <3>1, AsksTail
    <3> QED
      BY <1>25, <2>1, <2>5, <3>1, <3>2
  <2> QED
    BY <1>25, <2>1, <2>2, <2>3, <2>4, <2>5 DEF Ordered
<1>26. CASE ReadInit
  <2>1. /\ toChild # <<>> /\ toChild' = Tail(toChild) /\ job' = Head(toChild)
        /\ UNCHANGED <<answer, step, m_next_id, stage, reader>>
    BY <1>26 DEF ReadInit
  <2>2. Serving' => Head(toChild).kind = "request"
    BY <2>1 DEF Serving
  <2> QED
    BY <1>25, <2>1, <2>2
<1>27. CASE CallReads
  <2>1. /\ toChild # <<>> /\ toChild' = Tail(toChild) /\ UNCHANGED <<job, child>>
        /\ UNCHANGED <<answer, step, m_next_id, stage, reader>>
    BY <1>27 DEF CallReads
  <2>2. Serving' => Serving
    BY <2>1 DEF Serving
  <2> QED
    BY <1>25, <2>1, <2>2
<1>28. CASE LoopReads
  <2>1. /\ toChild # <<>> /\ toChild' = Tail(toChild)
        /\ child' = "drain" \/ job' = Head(toChild)
        /\ UNCHANGED <<answer, step, m_next_id, stage, reader>>
    BY <1>28 DEF LoopReads, Runs
  <2>2. Serving' => Head(toChild).kind = "request" /\ job' = Head(toChild)
    BY <2>1 DEF Serving
  <2> QED
    BY <1>25, <2>1, <2>2
<1>29. ASSUME NEW body \in {"ok", "error"}, Responds(body) PROVE Ordered'
  <2>1. /\ Serving /\ answer' = [answer EXCEPT ![job.id] = body] /\ child' # "lua"
        /\ UNCHANGED <<toChild, step, m_next_id, stage, reader>>
    BY <1>29 DEF Responds, Serving, Ends
  <2>2. /\ job.id \in Calls /\ job.id < Sent /\ \A c \in Answered : c < Sent
        /\ Asks(toChild, Answered \cup {job.id}, Sent)
    BY <2>1 DEF Ordered
  <2>3. Answered' = Answered \cup {job.id}
    BY <2>1, <2>2 DEF TypeOK, Answered
  <2>4. Sent' = Sent /\ ~Starting' /\ ~Serving'
    BY <1>17, <1>18, <2>1 DEF Serving
  <2> QED
    BY <2>1, <2>2, <2>3, <2>4 DEF Ordered
<1> QED
  BY <1>4, <1>5, <1>7, <1>8, <1>9, <1>10, <1>10a, <1>11, <1>11a, <1>12, <1>13, <1>14, <1>15,
     <1>16, <1>19, <1>20, <1>22, <1>23, <1>24, <1>26, <1>27, <1>28, <1>29
     DEF Next, CallStep, ReaderStep, OwnerStep, ChildStep

(* While the child serves a call, nobody has been answered with its id.      *)
LEMMA ServingUnanswered == TypeOK /\ Ordered /\ Serving => job.id \in Calls /\ answer[job.id] = "none"
<1> SUFFICES ASSUME TypeOK, Ordered, Serving PROVE job.id \in Calls /\ answer[job.id] = "none"
  OBVIOUS
<1>1. job.id \in Calls /\ \A c \in Answered : c < job.id
  BY DEF Ordered
<1>2. job.id \notin Answered
  BY <1>1, BoundsAssumption DEF Calls, Answered
<1> QED
  BY <1>1, <1>2 DEF Answered

LEMMA NextTruthful ==
    TypeOK /\ Typing /\ Promises /\ Ordered /\ Truthful /\ [Next]_vars => Truthful'
<1> SUFFICES ASSUME TypeOK, Typing, Promises, Ordered, Truthful, [Next]_vars PROVE Truthful'
  OBVIOUS
<1> USE DEF callVars, pendingVars, ownerVars, readerVars, luaVars, systemVars, outsideCall,
            outsideReader, outsideOwner, outsideChild
<1> DEFINE Past == {"detect", "detectAgain", "exit"}
<1>1. ASSUME UNCHANGED answer PROVE Honest' = Honest
  BY <1>1 DEF Honest
(* steps that leave the answers and the reader's entry alone                 *)
<1>2. ASSUME UNCHANGED <<answer, outcome, returned, entry>>, toParent' \in Seq(Honest),
             reader' = "set" => reader = "set", reader \in Past => reader' \in Past
      PROVE  Truthful'
  <2>1. OutcomeJustified'
    BY <1>2 DEF Truthful, OutcomeJustified
  <2> QED
    BY <1>1, <1>2, <2>1 DEF Truthful
<1>3. toParent \in Seq(Honest)
  BY DEF Truthful
<1>4. CASE SendInit \/ Evaluate \/ Shutdown
  BY <1>2, <1>3, <1>4 DEF SendInit, Evaluate, Shutdown, Register
<1>5. CASE Send \/ SendOversized \/ TimesOut \/ NotifyChild \/ NotifyWritten
  BY <1>2, <1>3, <1>5 DEF Send, SendOversized, TimesOut, NotifyChild, NotifyWritten
<1>6. ASSUME NEW result, Return(result), result \in {"ok", "error"} => answer[current] = result
      PROVE  Truthful'
  <2>1. /\ UNCHANGED <<answer, outcome, entry, toParent, reader>>
        /\ returned' = [returned EXCEPT ![current] = result]
    BY <1>6 DEF Return
  <2>2. OutcomeJustified'
    BY <1>6, <2>1 DEF TypeOK, Truthful, OutcomeJustified
  <2> QED
    BY <1>1, <1>3, <2>1, <2>2 DEF Truthful
<1>7. CASE SendFails \/ Expired
  BY <1>6, <1>7 DEF SendFails, Expired
<1>8. CASE Resolved
  <2>1. Return(outcome[current]) /\ current \in Calls
    BY <1>8 DEF Resolved, TypeOK
  <2>2. outcome[current] \in {"ok", "error"} => answer[current] = outcome[current]
    BY <2>1 DEF Truthful, OutcomeJustified
  <2> QED
    BY <1>6, <2>1, <2>2
<1>9. ASSUME Take PROVE Head(toParent) \in Honest /\ toParent' \in Seq(Honest)
  BY <1>3, <1>9, TailAt DEF Take
<1>10. CASE TakeResponse
  <2>1. /\ Take /\ Head(toParent).kind = "response" /\ entry' = Head(toParent)
        /\ reader = "read" /\ reader' \in {"read", "set"} /\ UNCHANGED <<answer, outcome, returned>>
    BY <1>10 DEF TakeResponse, Take
  <2>2. answer[Head(toParent).id] = Head(toParent).body
    BY <1>9, <2>1 DEF Honest
  <2>3. OutcomeJustified'
    BY <2>1 DEF Truthful, OutcomeJustified
  <2> QED
    BY <1>1, <1>9, <2>1, <2>2, <2>3 DEF Truthful
<1>11. CASE SetPromise
  <2>1. /\ answer[entry.id] = entry.body /\ reader = "set" /\ reader' = "read"
        /\ outcome' = [outcome EXCEPT ![entry.id] = entry.body]
        /\ entry.body \in {"ok", "error"} /\ entry.id \in Calls
        /\ UNCHANGED <<answer, returned, entry, toParent>>
    BY <1>11 DEF SetPromise, Truthful, Typing, Promises
  <2>2. OutcomeJustified'
    BY <2>1 DEF TypeOK, Truthful, OutcomeJustified
  <2> QED
    BY <1>1, <1>3, <2>1, <2>2 DEF Truthful
<1>12. CASE TakeRequest
  <2>1. /\ Take /\ reader = "read" /\ reader' = "serve" /\ UNCHANGED <<answer, outcome, returned>>
    BY <1>12 DEF TakeRequest, Take
  <2>2. OutcomeJustified'
    BY <2>1 DEF Truthful, OutcomeJustified
  <2> QED
    BY <1>1, <1>9, <2>1, <2>2 DEF Truthful
<1>13. CASE Served \/ SendAnswer \/ ReadFails \/ DetectChildExit
  BY <1>2, <1>3, <1>13 DEF Served, SendAnswer, ReadFails, DetectChildExit
<1>14. CASE FailPending
  <2>1. /\ UNCHANGED <<answer, returned, entry, toParent>> /\ reader = "fail" /\ reader' = "detect"
        /\ \A c \in Calls : outcome'[c] \in {outcome[c], "disconnected"}
    BY <1>14 DEF FailPending
  <2>2. OutcomeJustified'
    BY <2>1 DEF Truthful, OutcomeJustified
  <2> QED
    BY <1>1, <1>3, <2>1, <2>2 DEF Truthful
<1>15. CASE Remove \/ Close \/ Join
  BY <1>2, <1>3, <1>15 DEF Remove, Close, Join
<1>16. CASE Kill \/ Reap
  <2>1. /\ UNCHANGED <<answer, returned, entry, toParent, reader>>
        /\ Sweep \/ UNCHANGED outcome
    BY <1>16 DEF Kill, Reap
  <2>2. \A c \in Calls : outcome'[c] \in {outcome[c], "terminated"}
    BY <2>1 DEF Sweep
  <2>3. OutcomeJustified'
    BY <2>1, <2>2 DEF Truthful, OutcomeJustified
  <2> QED
    BY <1>1, <1>3, <2>1, <2>3 DEF Truthful
<1>17. ASSUME UNCHANGED <<outcome, returned, entry, reader, answer, toParent>> PROVE Truthful'
  BY <1>2, <1>3, <1>17
<1>18. CASE ParentDies \/ BecomesZombie \/ ReapedBySteam \/ PidRecycled \/ UNCHANGED vars
  BY <1>17, <1>18 DEF ParentDies, BecomesZombie, ReapedBySteam, PidRecycled, vars
<1>19. CASE ReadInit \/ NoInit \/ CallReads \/ CallDisconnected \/ NotificationDone \/ Drain
            \/ ExitsNormally \/ Resume \/ Crash \/ ParentDeathSignal
  BY <1>17, <1>19 DEF ReadInit, NoInit, CallReads, CallDisconnected, NotificationDone, Drain,
                      ExitsNormally, Resume, Crash, ParentDeathSignal
<1>20. CASE LoopReads \/ LeaveLoop
  BY <1>17, <1>20 DEF LoopReads, LeaveLoop
<1>21. CASE LuaCalls \/ LuaLogs
  <2>1. said' \in 0 .. MaxSaid
    BY <1>21, BoundsAssumption DEF LuaCalls, LuaLogs, TypeOK
  <2>2. \A k \in {"request", "notify", "bad"} : Frame(k, said', "none") \in Honest
    BY <2>1, FramesMade DEF Honest, Frame
  <2>3. toParent' = toParent \/ \E f \in Honest : toParent' = Append(toParent, f)
    BY <1>21, <2>2 DEF LuaCalls, LuaLogs, Say
  <2>4. toParent' \in Seq(Honest)
    BY <1>3, <2>3, AppendAt
  <2> QED
    BY <1>2, <1>21, <2>4 DEF LuaCalls, LuaLogs
<1>22. ASSUME NEW body \in {"ok", "error"}, Responds(body) PROVE Truthful'
  <2>1. /\ Serving /\ answer' = [answer EXCEPT ![job.id] = body]
        /\ UNCHANGED <<outcome, returned, entry, reader>>
        /\ toParent' = toParent \/ toParent' = Append(toParent, Frame("response", job.id, body))
    BY <1>22 DEF Responds, Serving, Say
  <2>2. job.id \in Calls /\ answer[job.id] = "none"
    BY <2>1, ServingUnanswered
  <2>3. \A c \in Calls : answer[c] # "none" => answer'[c] = answer[c]
    BY <2>1, <2>2 DEF TypeOK
  <2>4. Honest \subseteq Honest'
    <3> SUFFICES ASSUME NEW f \in Honest PROVE f \in Honest'
      OBVIOUS
    <3>1. f \in ForParent /\ (f.kind = "response" => /\ f.id \in Calls /\ answer[f.id] = f.body
                                                     /\ f.body \in {"ok", "error"})
      BY DEF Honest, ForParent
    <3> QED
      BY <2>3, <3>1 DEF Honest
  <2>5. Frame("response", job.id, body) \in Honest'
    <3>1. Frame("response", job.id, body) \in ForParent
      BY FramesMade DEF TypeOK
    <3>2. answer'[job.id] = body
      BY <2>1, <2>2 DEF TypeOK
    <3> QED
      BY <2>2, <3>1, <3>2 DEF Honest, Frame
  <2>6. toParent' \in Seq(Honest')
    <3>1. toParent \in Seq(Honest')
      BY <1>3, <2>4, SeqGrows
    <3> QED
      BY <2>1, <2>5, <3>1, AppendAt
  <2>7. OutcomeJustified'
    BY <2>1, <2>3 DEF TypeOK, Truthful, OutcomeJustified
  <2>8. reader' = "set" => answer'[entry'.id] = entry'.body
    <3>1. reader = "set" => /\ answer[entry.id] = entry.body /\ entry.body # "none"
                            /\ entry.id \in Calls
      BY DEF Truthful, Typing, Promises
    <3> QED
      BY <2>1, <2>3, <3>1
  <2> QED
    BY <2>6, <2>7, <2>8 DEF Truthful
<1> QED
  BY <1>4, <1>5, <1>7, <1>8, <1>10, <1>11, <1>12, <1>13, <1>14, <1>15, <1>16, <1>18, <1>19,
     <1>20, <1>21, <1>22
     DEF Next, CallStep, ReaderStep, OwnerStep, ChildStep

LEMMA InitOrdered == Init => Ordered /\ Truthful
<1> SUFFICES ASSUME Init PROVE Ordered /\ Truthful
  OBVIOUS
<1>1. toChild = <<>> /\ Len(toChild) = 0 /\ Answered = {} /\ ~Serving /\ <<>> \in Seq(Honest)
  BY DEF Init, Answered, Serving
<1> QED
  BY <1>1 DEF Init, Ordered, Asks, Truthful, OutcomeJustified

LEMMA AnswersInv ==
    Spec => [](TypeOK /\ Typing /\ Promises /\ Ordered /\ Truthful)
  BY TypingInv, InitOrdered, NextOrdered, NextTruthful, PTL DEF Spec

(* PluginProcess::call() returns the answer the child gave to this very      *)
(* call, although the reader also meets the late answers to calls that were  *)
(* given up; and it fails a call as disconnected only when it stops reading. *)
THEOREM AnswersAreOwn == Spec => []OutcomeJustified
<1>1. Truthful => OutcomeJustified
  BY DEF Truthful
<1> QED
  BY <1>1, AnswersInv, PTL

-----------------------------------------------------------------------------
(***************************************************************************)
(* Notifications arrive in the order sent.  Those the Lua code has not got *)
(* are first the deferred ones, numbered from the one after the last       *)
(* delivered, then those on the socket, in order and without a gap.  The   *)
(* loop finds nothing deferred: what a call() deferred is drained before,  *)
(* and INIT is served before the first notification is sent.               *)
(***************************************************************************)
Numbered(s, low, high) ==
    /\ \A i \in 1 .. Len(s) : s[i].kind = "notify" =>
          /\ low < s[i].id /\ s[i].id <= high
          /\ \A j \in 1 .. Len(s) : s[j].kind = "notify" /\ i < j => s[i].id < s[j].id
    /\ \A n \in low + 1 .. high : \E i \in 1 .. Len(s) : s[i].kind = "notify" /\ s[i].id = n

(* the last notification the child has read                                  *)
Read == delivered + Len(m_deferred_notifications)

Delivery ==
    /\ Read <= notified /\ Numbered(toChild, Read, notified)
    /\ \A i \in 1 .. Len(m_deferred_notifications) :
          m_deferred_notifications[i].id = delivered + i
    /\ child = "loop" => m_deferred_notifications = <<>>
    /\ child = "lua" => job # Coroutine
    /\ stage = "published" \/ notified > 0 => answer[0] = "ok"
    /\ child = "start" \/ (child = "lua" /\ job.body = "init") => answer[0] = "none"

LEMMA NumberedTail ==
    ASSUME NEW s \in Seq(ForChild), s # <<>>, NEW low \in Nat, NEW high \in Nat,
           Numbered(s, low, high)
    PROVE  /\ Head(s).kind # "notify" => Numbered(Tail(s), low, high)
           /\ Head(s).kind = "notify" => /\ Head(s).id = low + 1 /\ low + 1 <= high
                                         /\ Numbered(Tail(s), low + 1, high)
<1>1. /\ Len(s) \in Nat /\ Len(s) >= 1 /\ Len(Tail(s)) = Len(s) - 1 /\ Head(s) = s[1]
      /\ \A i \in 1 .. Len(s) - 1 : Tail(s)[i] = s[i + 1]
  BY TailAt
<1>2. \A i \in 1 .. Len(Tail(s)) : /\ i + 1 \in 1 .. Len(s) /\ Tail(s)[i] = s[i + 1]
                                   /\ 1 < i + 1
                                   /\ \A j \in 1 .. Len(Tail(s)) : i < j => i + 1 < j + 1
  BY <1>1
<1>3. \A i \in 1 .. Len(s) : i = 1 \/ (i - 1 \in 1 .. Len(Tail(s)) /\ s[i] = Tail(s)[i - 1])
  BY <1>1
<1>4. \A i \in 1 .. Len(Tail(s)) : Tail(s)[i].kind = "notify" =>
          /\ low < Tail(s)[i].id /\ Tail(s)[i].id <= high
          /\ \A j \in 1 .. Len(Tail(s)) :
                Tail(s)[j].kind = "notify" /\ i < j => Tail(s)[i].id < Tail(s)[j].id
  BY <1>2 DEF Numbered
<1>5. ASSUME Head(s).kind # "notify" PROVE Numbered(Tail(s), low, high)
  <2>1. ASSUME NEW n \in low + 1 .. high
        PROVE  \E i \in 1 .. Len(Tail(s)) : Tail(s)[i].kind = "notify" /\ Tail(s)[i].id = n
    <3>1. PICK i \in 1 .. Len(s) : s[i].kind = "notify" /\ s[i].id = n
      BY DEF Numbered
    <3> QED
      BY <1>1, <1>3, <1>5, <3>1
  <2> QED
    BY <1>4, <2>1 DEF Numbered
<1>6. ASSUME Head(s).kind = "notify"
      PROVE  Head(s).id = low + 1 /\ low + 1 <= high /\ Numbered(Tail(s), low + 1, high)
  <2>1. 1 \in 1 .. Len(s) /\ s[1].kind = "notify" /\ s[1].id \in Int
    BY <1>1, <1>6, TailAt DEF ForChild
  <2>2. /\ low < s[1].id /\ s[1].id <= high
        /\ \A j \in 1 .. Len(s) : s[j].kind = "notify" /\ 1 < j => s[1].id < s[j].id
    BY <2>1 DEF Numbered
  <2>3. low + 1 \in low + 1 .. high
    BY <2>1, <2>2
  <2>4. PICK i \in 1 .. Len(s) : s[i].kind = "notify" /\ s[i].id = low + 1
    BY <2>3 DEF Numbered
  <2>5. s[1].id = low + 1
    <3>1. i = 1 \/ 1 < i
      OBVIOUS
    <3>2. 1 < i => s[1].id < low + 1
      BY <2>2, <2>4
    <3> QED
      BY <2>1, <2>2, <2>4, <3>1, <3>2
  <2>6. \A k \in 1 .. Len(Tail(s)) : Tail(s)[k].kind = "notify" => low + 1 < Tail(s)[k].id
    BY <1>2, <2>2, <2>5
  <2>7. ASSUME NEW n \in low + 1 + 1 .. high
        PROVE  \E k \in 1 .. Len(Tail(s)) : Tail(s)[k].kind = "notify" /\ Tail(s)[k].id = n
    <3>1. PICK k \in 1 .. Len(s) : s[k].kind = "notify" /\ s[k].id = n
      BY DEF Numbered
    <3>2. k # 1
      BY <2>5, <3>1
    <3> QED
      BY <1>3, <3>1, <3>2
  <2> QED
    BY <1>1, <1>4, <2>3, <2>5, <2>6, <2>7 DEF Numbered
<1> QED
  BY <1>5, <1>6

LEMMA NumberedAppend ==
    ASSUME NEW s \in Seq(ForChild), NEW f \in ForChild, NEW low \in Nat, NEW high \in Nat,
           Numbered(s, low, high), low <= high
    PROVE  /\ f.kind # "notify" => Numbered(Append(s, f), low, high)
           /\ f.kind = "notify" /\ f.id = high + 1 => Numbered(Append(s, f), low, high + 1)
<1>1. /\ Len(s) \in Nat /\ Len(Append(s, f)) = Len(s) + 1
      /\ Append(s, f)[Len(s) + 1] = f
      /\ \A i \in 1 .. Len(s) : Append(s, f)[i] = s[i]
  BY AppendAt
<1>2. \A i \in 1 .. Len(Append(s, f)) :
         \/ i \in 1 .. Len(s) /\ Append(s, f)[i] = s[i]
         \/ /\ i = Len(s) + 1 /\ Append(s, f)[i] = f
            /\ \A j \in 1 .. Len(Append(s, f)) : ~(i < j)
  BY <1>1
<1>3. \A n \in low + 1 .. high :
         \E i \in 1 .. Len(Append(s, f)) : Append(s, f)[i].kind = "notify" /\ Append(s, f)[i].id = n
  <2> SUFFICES ASSUME NEW n \in low + 1 .. high
               PROVE  \E i \in 1 .. Len(Append(s, f)) : /\ Append(s, f)[i].kind = "notify"
                                                        /\ Append(s, f)[i].id = n
    OBVIOUS
  <2>1. PICK i \in 1 .. Len(s) : s[i].kind = "notify" /\ s[i].id = n
    BY DEF Numbered
  <2>2. i \in 1 .. Len(Append(s, f)) /\ Append(s, f)[i] = s[i]
    BY <1>1
  <2> QED
    BY <2>1, <2>2
<1>4. ASSUME f.kind # "notify" PROVE Numbered(Append(s, f), low, high)
  BY <1>2, <1>3, <1>4 DEF Numbered
<1>5. ASSUME f.kind = "notify", f.id = high + 1 PROVE Numbered(Append(s, f), low, high + 1)
  <2>1. \A i \in 1 .. Len(s) : s[i].kind = "notify" =>
           s[i].id \in Int /\ low < s[i].id /\ s[i].id <= high
    <3>1. \A i \in 1 .. Len(s) : s[i] \in ForChild
      BY ElementOfSeq
    <3> QED
      BY <3>1 DEF Numbered, ForChild
  <2>2. \A i \in 1 .. Len(s) : s[i].kind = "notify" =>
           low < s[i].id /\ s[i].id <= high + 1 /\ s[i].id < high + 1
    BY <2>1
  <2>3. ASSUME NEW n \in low + 1 .. high + 1
        PROVE  \E i \in 1 .. Len(Append(s, f)) : /\ Append(s, f)[i].kind = "notify"
                                                 /\ Append(s, f)[i].id = n
    <3>1. CASE n \in low + 1 .. high
      BY <1>3, <3>1
    <3>2. CASE n = high + 1
      <4>1. Len(s) + 1 \in 1 .. Len(Append(s, f))
        BY <1>1
      <4> QED
        BY <1>1, <1>5, <3>2, <4>1
    <3> QED
      BY <3>1, <3>2
  <2>4. low < high + 1 /\ high + 1 <= high + 1
    OBVIOUS
  <2>5. \A i \in 1 .. Len(Append(s, f)) : Append(s, f)[i].kind = "notify" =>
          /\ low < Append(s, f)[i].id /\ Append(s, f)[i].id <= high + 1
          /\ \A j \in 1 .. Len(Append(s, f)) :
                Append(s, f)[j].kind = "notify" /\ i < j => Append(s, f)[i].id < Append(s, f)[j].id
    BY <1>2, <1>5, <2>2, <2>4 DEF Numbered
  <2> QED
    BY <2>3, <2>5 DEF Numbered
<1> QED
  BY <1>4, <1>5

LEMMA NextDelivery ==
    ~Coroutines /\ TypeOK /\ Typing /\ Ordered /\ Truthful /\ Delivery /\ [Next]_vars
        => Delivery' /\ delivered' \in {delivered, delivered + 1}
<1> SUFFICES ASSUME ~Coroutines, TypeOK, Typing, Ordered, Truthful, Delivery, [Next]_vars
             PROVE  Delivery' /\ delivered' \in {delivered, delivered + 1}
  OBVIOUS
<1> DEFINE Goal == Delivery' /\ delivered' \in {delivered, delivered + 1}
<1> HIDE DEF Goal
<1> SUFFICES Goal
  BY DEF Goal
<1> USE DEF callVars, pendingVars, ownerVars, readerVars, luaVars, systemVars, outsideCall,
            outsideReader, outsideOwner, outsideChild
<1>0. /\ toChild \in Seq(ForChild) /\ m_deferred_notifications \in Seq(Notifications)
      /\ delivered \in Nat /\ notified \in Nat /\ Len(m_deferred_notifications) \in Nat
      /\ Read \in Nat /\ Read <= notified /\ Numbered(toChild, Read, notified)
      /\ ForChild \subseteq Frames /\ Notifications \subseteq ForChild
  <2>1. Len(m_deferred_notifications) \in Nat /\ delivered \in Nat /\ notified \in Nat
    BY LenProperties DEF Typing, TypeOK
  <2> QED
    BY <2>1 DEF Typing, Delivery, Read, ForChild, Notifications
<1>1. ASSUME UNCHANGED <<delivered, m_deferred_notifications, toChild, notified, answer>>,
             child' \in {"gone", "drain"} \/ UNCHANGED <<child, job>>,
             stage' = "published" => stage = "published"
      PROVE  Goal
  BY <1>1 DEF Goal, Delivery, Read
<1>2. CASE SendInit \/ Evaluate \/ Shutdown \/ TimesOut \/ NotifyChild
  BY <1>1, <1>2 DEF SendInit, Evaluate, Shutdown, Register, TimesOut, NotifyChild
<1>3. CASE SendFails \/ Expired
  BY <1>1, <1>3 DEF SendFails, Expired, Return
<1>4. CASE Resolved
  <2>1. /\ UNCHANGED <<delivered, m_deferred_notifications, toChild, notified, answer, child, job>>
        /\ stage' = "published" => stage = "published" \/ (stage = "init" /\ outcome[current] = "ok")
        /\ step \notin {"idle", "notify"} /\ current \in Calls
    BY <1>4 DEF Resolved, Return, TypeOK
  <2>2. ASSUME stage = "init", outcome[current] = "ok" PROVE answer[0] = "ok"
    <3>1. current = 0
      BY <2>1, <2>2 DEF Typing
    <3> QED
      BY <2>1, <2>2, <3>1 DEF Truthful, OutcomeJustified
  <2> QED
    BY <2>1, <2>2 DEF Goal, Delivery, Read
<1>5. ASSUME NEW f \in ForChild, f.kind # "notify", toChild' = Append(toChild, f),
             UNCHANGED <<delivered, m_deferred_notifications, notified, answer, child, job, stage>>
      PROVE  Goal
  <2>1. Numbered(toChild', Read, notified)
    BY <1>0, <1>5, NumberedAppend
  <2> QED
    BY <1>5, <2>1 DEF Goal, Delivery, Read
<1>6. CASE Send \/ SendOversized
  <2>1. Method \in {"init", "evaluate", "shutdown"} /\ (Method = "init" => current = 0)
    <3>1. stage = "removed" => current # 0
      BY <1>6 DEF Send, SendOversized, Typing
    <3> QED
      BY <3>1, Zenon DEF Method
  <2>2. current \in Calls
    BY DEF TypeOK
  <2>3. PICK f \in ForChild : toChild' = Append(toChild, f) /\ f.kind # "notify"
    <3>1. /\ Frame("request", current, Method) \in ForChild
          /\ Frame("request", current, Method).kind # "notify"
      BY <2>1, <2>2, FramesMade DEF Frame
    <3>2. /\ Frame("bad", current, "evaluate") \in ForChild
          /\ Frame("bad", current, "evaluate").kind # "notify"
      BY <2>2, FramesMade DEF Frame
    <3> QED
      BY <1>6, <3>1, <3>2 DEF Send, SendOversized
  <2> QED
    BY <1>5, <1>6, <2>3 DEF Send, SendOversized
<1>7. CASE SendAnswer
  <2>1. /\ Frame("response", entry.id, "ok") \in ForChild
        /\ Frame("response", entry.id, "ok").kind # "notify"
    BY FramesMade DEF TypeOK, Frame
  <2>2. /\ toChild' \in {toChild, Append(toChild, Frame("response", entry.id, "ok"))}
        /\ UNCHANGED <<delivered, m_deferred_notifications, notified, answer, child, job, stage>>
    BY <1>7 DEF SendAnswer
  <2> QED
    BY <1>1, <1>5, <2>1, <2>2
<1>8a. CASE NotifyWritten /\ process # "running"
  BY <1>1, <1>8a DEF NotifyWritten
<1>8. CASE NotifyWritten /\ process = "running"
  <2>1. /\ UNCHANGED <<answer, child, job, stage, delivered, m_deferred_notifications>>
        /\ stage = "published" /\ notified' = notified + 1
        /\ toChild' = Append(toChild, Frame("notify", notified', "none"))
        /\ notified' \in 1 .. MaxNotifies
    BY <1>8, BoundsAssumption DEF NotifyWritten, TypeOK, Typing
  <2>2. /\ Frame("notify", notified', "none") \in ForChild
        /\ Frame("notify", notified', "none").kind = "notify"
        /\ Frame("notify", notified', "none").id = notified + 1
    BY <1>0, <2>1, FramesMade DEF Frame
  <2>3. Numbered(toChild', Read, notified')
    BY <1>0, <2>1, <2>2, NumberedAppend
  <2>4. Read <= notified' /\ Read' = Read
    BY <1>0, <2>1 DEF Read
  <2> QED
    BY <2>1, <2>3, <2>4 DEF Goal, Delivery
<1>9. CASE TakeResponse \/ TakeRequest \/ SetPromise \/ Served \/ ReadFails \/ FailPending
           \/ DetectChildExit
  BY <1>1, <1>9 DEF TakeResponse, TakeRequest, Take, SetPromise, Served, ReadFails, FailPending,
                    DetectChildExit
<1>10. CASE Remove \/ Close \/ Join
  BY <1>1, <1>10 DEF Remove, Close, Join
<1>11. CASE Kill \/ Reap
  <2>1. /\ UNCHANGED <<toChild, answer, job, delivered, m_deferred_notifications, notified>>
        /\ child' \in {child, "gone"} /\ stage' # "published"
    BY <1>11 DEF Kill, Reap, Ends
  <2> QED
    BY <1>1, <2>1
<1>12. CASE ParentDies \/ BecomesZombie \/ ReapedBySteam \/ PidRecycled \/ UNCHANGED vars
  BY <1>1, <1>12 DEF ParentDies, BecomesZombie, ReapedBySteam, PidRecycled, vars
<1>13. CASE NoInit \/ ExitsNormally \/ Crash \/ ParentDeathSignal
  BY <1>1, <1>13 DEF NoInit, ExitsNormally, Crash, ParentDeathSignal, Ends
<1>14. CASE LuaCalls \/ LuaLogs \/ CallDisconnected
  BY <1>1, <1>14 DEF LuaCalls, LuaLogs, CallDisconnected
<1>15. CASE NotificationDone
  <2>1. job # Coroutine
    BY <1>15 DEF NotificationDone, Delivery
  <2> QED
    BY <1>1, <1>15, <2>1 DEF NotificationDone
<1>16. CASE Resume
  BY <1>16 DEF Resume
(* The child takes the next frame from the socket.                           *)
<1>17. ASSUME toChild # <<>>, toChild' = Tail(toChild), Head(toChild).kind # "notify",
              UNCHANGED <<delivered, m_deferred_notifications, notified, answer, stage>>,
              child' \in {"lua", "drain"},
              child' = "lua" => /\ job' # Coroutine
                                /\ job'.body = "init" => answer[0] = "none"
       PROVE  Goal
  <2>1. Numbered(toChild', Read, notified)
    BY <1>0, <1>17, NumberedTail
  <2> QED
    BY <1>17, <2>1 DEF Goal, Delivery, Read
<1>18. ASSUME toChild # <<>>
       PROVE  /\ Head(toChild) \in ForChild /\ Head(toChild) # Coroutine
              /\ Head(toChild).body = "init" => answer[0] = "none"
  <2>1. Head(toChild) \in ForChild
    BY <1>0, <1>18, TailAt
  <2>2. Head(toChild).kind = "notify" => Head(toChild).id # 0
    BY <2>1, BoundsAssumption DEF ForChild
  <2>3. Head(toChild) # Coroutine
    BY <2>2, FramesMade
  <2>4. ASSUME Head(toChild).body = "init" PROVE answer[0] = "none"
    <3>1. Head(toChild).kind = "request" /\ Head(toChild).id = 0
      BY <2>1, <2>4 DEF ForChild
    <3>2. Answered \in SUBSET Calls /\ Sent \in Int
      BY BoundsAssumption DEF Answered, Sent, TypeOK
    <3>3. \A c \in Answered : c < 0
      BY <1>0, <1>18, <3>1, <3>2, AsksTail DEF Ordered
    <3>4. 0 \in Calls /\ 0 \notin Answered
      BY <3>3, BoundsAssumption DEF Calls
    <3> QED
      BY <3>4 DEF Answered
  <2> QED
    BY <2>1, <2>3, <2>4
<1>19. ASSUME toChild # <<>>, Head(toChild).kind = "notify"
       PROVE  /\ Head(toChild).id = Read + 1 /\ Read + 1 <= notified
              /\ Numbered(Tail(toChild), Read + 1, notified)
              /\ answer[0] = "ok"
  <2>1. /\ Head(toChild).id = Read + 1 /\ Read + 1 <= notified
        /\ Numbered(Tail(toChild), Read + 1, notified)
    BY <1>0, <1>19, NumberedTail
  <2>2. notified > 0
    BY <1>0, <2>1
  <2> QED
    BY <2>1, <2>2 DEF Delivery
<1>20. CASE ReadInit
  <2>1. /\ toChild # <<>> /\ toChild' = Tail(toChild) /\ child = "start" /\ child' = "lua"
        /\ job' = Head(toChild)
        /\ UNCHANGED <<delivered, m_deferred_notifications, notified, answer, stage>>
    BY <1>20 DEF ReadInit
  <2>2. answer[0] = "none"
    BY <2>1 DEF Delivery
  <2>3. Head(toChild).kind # "notify"
    BY <1>19, <2>1, <2>2
  <2> QED
    BY <1>17, <1>18, <2>1, <2>2, <2>3
<1>21. CASE CallReads
  <2>1. /\ toChild # <<>> /\ toChild' = Tail(toChild) /\ child = "lua" /\ UNCHANGED <<child, job>>
        /\ UNCHANGED <<delivered, notified, answer, stage>>
        /\ m_deferred_notifications' = IF Head(toChild).kind = "notify" THEN Defer(Head(toChild))
                                       ELSE m_deferred_notifications
    BY <1>21 DEF CallReads
  <2>2. CASE Head(toChild).kind # "notify"
    BY <1>17, <2>1, <2>2 DEF Delivery
  <2>3. CASE Head(toChild).kind = "notify"
    <3>1. Head(toChild) \in Notifications
      BY <1>18, <2>1, <2>3 DEF Notifications
    <3>2. /\ m_deferred_notifications' = Append(m_deferred_notifications, Head(toChild))
          /\ Len(m_deferred_notifications') = Len(m_deferred_notifications) + 1
          /\ m_deferred_notifications'[Len(m_deferred_notifications) + 1] = Head(toChild)
          /\ \A i \in 1 .. Len(m_deferred_notifications) :
                m_deferred_notifications'[i] = m_deferred_notifications[i]
      BY <1>0, <2>1, <2>3, <3>1, AppendAt DEF Defer
    <3>3. Read' = Read + 1 /\ Read' <= notified' /\ Numbered(toChild', Read', notified')
      BY <1>0, <1>19, <2>1, <2>3, <3>2 DEF Read
    <3>4. \A i \in 1 .. Len(m_deferred_notifications') :
             m_deferred_notifications'[i].id = delivered' + i
      <4> SUFFICES ASSUME NEW i \in 1 .. Len(m_deferred_notifications')
                   PROVE  m_deferred_notifications'[i].id = delivered + i
        BY <2>1
      <4>1. CASE i \in 1 .. Len(m_deferred_notifications)
        BY <3>2, <4>1 DEF Delivery
      <4>2. CASE i = Len(m_deferred_notifications) + 1
        <5>1. m_deferred_notifications'[i].id = Read + 1
          BY <1>19, <2>1, <2>3, <3>2, <4>2
        <5> QED
          BY <1>0, <4>2, <5>1 DEF Read
      <4> QED
        BY <1>0, <3>2, <4>1, <4>2
    <3> QED
      BY <2>1, <3>3, <3>4 DEF Goal, Delivery
  <2> QED
    BY <2>2, <2>3
<1>22. CASE LoopReads
  <2>1. /\ toChild # <<>> /\ toChild' = Tail(toChild) /\ child = "loop"
        /\ UNCHANGED <<m_deferred_notifications, notified, answer, stage>>
        /\ \/ Head(toChild).kind \in {"request", "notify"} /\ Runs(Head(toChild))
           \/ /\ Head(toChild).kind # "notify" /\ child' = "drain"
              /\ UNCHANGED <<job, delivered>>
    BY <1>22 DEF LoopReads
  <2>2. CASE Head(toChild).kind # "notify"
    BY <1>17, <1>18, <2>1, <2>2 DEF Runs
  <2>3. CASE Head(toChild).kind = "notify"
    <3>1. /\ child' = "lua" /\ job' = Head(toChild) /\ delivered' = Head(toChild).id
          /\ m_deferred_notifications = <<>> /\ Len(m_deferred_notifications) = 0
      BY <2>1, <2>3 DEF Runs, Delivery
    <3>2. Read = delivered /\ delivered' = delivered + 1 /\ Read' = Read + 1
      BY <1>0, <1>19, <2>1, <2>3, <3>1 DEF Read
    <3>3. Read' <= notified' /\ Numbered(toChild', Read', notified')
      BY <1>19, <2>1, <2>3, <3>2
    <3>4. job' # Coroutine /\ (job'.body = "init" => answer[0] = "none")
      BY <1>18, <2>1, <3>1
    <3> QED
      BY <2>1, <3>1, <3>2, <3>3, <3>4 DEF Goal, Delivery
  <2> QED
    BY <2>2, <2>3
<1>23. CASE Drain
  <2>1. /\ child = "drain" /\ UNCHANGED <<toChild, notified, answer, stage>>
        /\ \/ /\ m_deferred_notifications = <<>> /\ child' = "loop"
              /\ UNCHANGED <<job, delivered, m_deferred_notifications>>
           \/ /\ m_deferred_notifications # <<>>
              /\ Runs(Head(m_deferred_notifications))
              /\ m_deferred_notifications' = Tail(m_deferred_notifications)
    BY <1>23 DEF Drain
  <2>2. CASE m_deferred_notifications = <<>>
    BY <2>1, <2>2 DEF Goal, Delivery, Read
  <2>3. CASE m_deferred_notifications # <<>>
    <3> DEFINE d == m_deferred_notifications
    <3>1. /\ Head(d) \in Notifications /\ Head(d) = d[1] /\ Len(d) >= 1 /\ Len(d') = Len(d) - 1
          /\ \A i \in 1 .. Len(d) - 1 : d'[i] = d[i + 1]
      BY <1>0, <2>1, <2>3, TailAt
    <3>2. Head(d).id = delivered + 1
      BY <1>0, <3>1 DEF Delivery
    <3>3. child' = "lua" /\ job' = Head(d) /\ delivered' = delivered + 1
      BY <2>1, <2>3, <3>1, <3>2 DEF Runs, Notifications
    <3>4. Read' = Read
      BY <1>0, <3>1, <3>3 DEF Read
    <3>5. \A i \in 1 .. Len(d') : d'[i].id = delivered' + i
      <4> SUFFICES ASSUME NEW i \in 1 .. Len(d) - 1 PROVE d'[i].id = delivered + 1 + i
        BY <3>1, <3>3
      <4>1. i + 1 \in 1 .. Len(d) /\ d'[i] = d[i + 1]
        BY <1>0, <3>1
      <4>2. d'[i].id = delivered + (i + 1)
        BY <4>1 DEF Delivery
      <4> QED
        BY <1>0, <4>2
    <3>6. Head(d).id # 0 /\ Head(d).body # "init"
      BY <1>0, <3>1, <3>2 DEF Notifications, ForChild
    <3>7. job' # Coroutine
      BY <3>3, <3>6, FramesMade
    <3> QED
      BY <1>0, <2>1, <3>3, <3>4, <3>5, <3>6, <3>7 DEF Goal, Delivery
  <2> QED
    BY <2>2, <2>3
<1>24. CASE LeaveLoop
  <2>1. /\ UNCHANGED <<toChild, notified, answer, stage, m_deferred_notifications>>
        /\ (child' = "gone" /\ UNCHANGED delivered) \/ Runs(Unload)
    BY <1>24 DEF LeaveLoop, Ends
  <2>2. UNCHANGED delivered
    BY <2>1, FramesMade DEF Runs
  <2>3. Runs(Unload) => child' = "lua" /\ job' # Coroutine /\ job'.body # "init"
    BY FramesMade DEF Runs
  <2> QED
    BY <2>1, <2>2, <2>3 DEF Goal, Delivery, Read
<1>25. ASSUME NEW body \in {"ok", "error"}, Responds(body) PROVE Goal
  <2>1. /\ Serving /\ answer' = [answer EXCEPT ![job.id] = body]
        /\ UNCHANGED <<toChild, notified, delivered, stage, m_deferred_notifications>>
        /\ child = "lua" /\ child' \in {"gone", "loop", "drain"}
        /\ child' = "loop" => job.body = "init"
    BY <1>25 DEF Responds, Serving, Ends
  <2>2. job.id \in Calls /\ answer[job.id] = "none"
    BY <2>1, ServingUnanswered
  <2>3. answer[0] = "ok" => answer'[0] = "ok"
    BY <2>1, <2>2, BoundsAssumption DEF TypeOK, Calls
  <2>4. ASSUME child' = "loop" PROVE m_deferred_notifications = <<>>
    <3>1. answer[0] = "none"
      BY <2>1, <2>4 DEF Delivery
    <3>2. ~(notified > 0)
      BY <3>1 DEF Delivery
    <3>3. Len(m_deferred_notifications) = 0
      BY <1>0, <3>2 DEF Read
    <3> QED
      BY <1>0, <3>3, EmptySeq
  <2> QED
    BY <2>1, <2>3, <2>4 DEF Goal, Delivery, Read
<1> QED
  BY <1>2, <1>3, <1>4, <1>6, <1>7, <1>8, <1>8a, <1>9, <1>10, <1>11, <1>12, <1>13, <1>14, <1>15, <1>16,
     <1>20, <1>21, <1>22, <1>23, <1>24, <1>25
     DEF Next, CallStep, ReaderStep, OwnerStep, ChildStep

LEMMA InitDelivery == Init => Delivery
<1> SUFFICES ASSUME Init PROVE Delivery
  OBVIOUS
<1>1. Len(toChild) = 0 /\ Len(m_deferred_notifications) = 0 /\ 0 \in Calls
  BY BoundsAssumption DEF Init, Calls
<1>2. Read = 0 /\ notified = 0 /\ answer[0] = "none"
  BY <1>1 DEF Init, Read
<1> QED
  BY <1>1, <1>2 DEF Init, Delivery, Numbered

(* Without coroutines the Lua code gets every notification in the order      *)
(* sent, also those rpc_client::call() met while it waited for a response    *)
(* and kept in m_deferred_notifications.                                     *)
THEOREM NotificationsInOrder == ~Coroutines => (Spec => InOrder)
<1> SUFFICES ASSUME ~Coroutines PROVE Spec => InOrder
  OBVIOUS
<1>1. TypeOK /\ Typing /\ Ordered /\ Truthful /\ Delivery /\ [Next]_vars
        => Delivery' /\ [delivered' \in {delivered, delivered + 1}]_vars
  BY NextDelivery
<1> QED
  BY <1>1, InitDelivery, AnswersInv, PTL DEF Spec, InOrder
=============================================================================
