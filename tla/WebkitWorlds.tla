---------------------------- MODULE WebkitWorlds ----------------------------
(***************************************************************************)
(* webkit_world_mgr (src/engine/plugin_webkit_world_mgr.cc) during one     *)
(* connection: the handlers of Target.targetCreated, targetInfoChanged and *)
(* targetDestroyed run on the callback pool of the cdp_client, several at  *)
(* a time, and attach to a page through requests that each wait for the    *)
(* browser.  The events of the model are those of pages whose URL is valid *)
(* and that cannot access their opener; the others return at once.         *)
(*                                                                         *)
(* The browser is external: pages open, change and close when they like,   *)
(* a request on a page that is gone fails, and any request may fail or     *)
(* time out, after a timeout with or without having been carried out.      *)
(* What comes after the client is shut down is not part of the model: its  *)
(* pool is joined before the manager is replaced, and m_shutdown is only   *)
(* stored afterwards.                                                      *)
(***************************************************************************)
EXTENDS Naturals, Sequences

CONSTANTS
    Targets,    \* ids of pages; an id is never used again
    Threads,    \* the callback pool
    None,
    MaxChanges  \* bound on the changes of a page, each of which may start an attachment

ASSUME NoneAssumption == None \notin Targets \cup Threads \cup (Targets \X Nat)
ASSUME BoundAssumption == MaxChanges \in Nat

VARIABLES
    page,       \* target -> "new", "live", "gone"
    changes,    \* target -> number of its changes so far
    sessions,   \* the sessions the browser has opened, <<target, number>>
    scripts,    \* the sessions with a script for new documents
    shown,      \* the targets that were reloaded or evaluated into
    queue,      \* events that wait for a thread of the pool
    m_attached_targets,         \* target -> entry, Absent if none
    m_attachments_in_flight,    \* set of targets
    m_targets_mutex,            \* its holder across a wait, or None
    pc, target, session,        \* thread -> its place, target and session
    failed      \* targets whose last attachment has failed

browserVars == <<page, changes, sessions, scripts, shown>>
tableVars == <<m_attached_targets, m_attachments_in_flight, m_targets_mutex>>
threadVars == <<pc, target, session>>
vars == <<browserVars, queue, tableVars, threadVars, failed>>

Absent == [present |-> FALSE, session_id |-> None, script |-> FALSE, attaching |-> FALSE]
Entry(s, script, attaching) ==
    [present |-> TRUE, session_id |-> s, script |-> script, attaching |-> attaching]

Init ==
    /\ page = [t \in Targets |-> "new"]
    /\ changes = [t \in Targets |-> 0]
    /\ sessions = {} /\ scripts = {} /\ shown = {}
    /\ queue = <<>>
    /\ m_attached_targets = [t \in Targets |-> Absent]
    /\ m_attachments_in_flight = {}
    /\ m_targets_mutex = None
    /\ pc = [th \in Threads |-> "idle"]
    /\ target = [th \in Threads |-> None]
    /\ session = [th \in Threads |-> None]
    /\ failed = {}

-----------------------------------------------------------------------------
(* The pages.                                                              *)

Announce(kind, t) == queue' = Append(queue, [kind |-> kind, target |-> t])

PageOpens(t) ==
    /\ page[t] = "new"
    /\ page' = [page EXCEPT ![t] = "live"]
    /\ Announce("created", t)
    /\ UNCHANGED <<changes, sessions, scripts, shown, tableVars, threadVars, failed>>

PageChanges(t) ==
    /\ page[t] = "live" /\ changes[t] < MaxChanges
    /\ changes' = [changes EXCEPT ![t] = @ + 1]
    /\ Announce("changed", t)
    /\ UNCHANGED <<page, sessions, scripts, shown, tableVars, threadVars, failed>>

PageCloses(t) ==
    /\ page[t] = "live"
    /\ page' = [page EXCEPT ![t] = "gone"]
    /\ Announce("destroyed", t)
    /\ UNCHANGED <<changes, sessions, scripts, shown, tableVars, threadVars, failed>>

-----------------------------------------------------------------------------
(* The handlers up to attach_to_target().                                  *)

Goto(th, place) == pc' = [pc EXCEPT ![th] = place]

\* A thread of the pool takes the next event.
Dispatch(th) ==
    /\ pc[th] = "idle" /\ queue # <<>>
    /\ Goto(th, Head(queue).kind)
    /\ target' = [target EXCEPT ![th] = Head(queue).target]
    /\ queue' = Tail(queue)
    /\ UNCHANGED <<browserVars, tableVars, session, failed>>

\* target_destroy_hdlr()
TargetDestroyed(th) ==
    /\ pc[th] = "destroyed"
    /\ m_targets_mutex = None
    /\ m_attached_targets' = [m_attached_targets EXCEPT ![target[th]] = Absent]
    /\ Goto(th, "idle")
    /\ UNCHANGED <<browserVars, queue, m_attachments_in_flight, m_targets_mutex,
                   target, session, failed>>

\* target_change_hdlr() looks first whether the target has a session.
TargetChanged(th) ==
    /\ pc[th] = "changed"
    /\ m_targets_mutex = None
    /\ Goto(th, IF m_attached_targets[target[th]].session_id = None THEN "created" ELSE "idle")
    /\ UNCHANGED <<browserVars, queue, tableVars, target, session, failed>>

\* The section on m_attachments_in_flight of both handlers.
EnterFlight(th) ==
    /\ pc[th] = "created"
    /\ IF target[th] \in m_attachments_in_flight
       THEN Goto(th, "idle") /\ UNCHANGED m_attachments_in_flight
       ELSE /\ Goto(th, "attach")
            /\ m_attachments_in_flight' = m_attachments_in_flight \cup {target[th]}
    /\ UNCHANGED <<browserVars, queue, m_attached_targets, m_targets_mutex,
                   target, session, failed>>

\* The return from attach_to_target() into the handler.
LeaveFlight(th) ==
    /\ pc[th] = "leave"
    /\ m_attachments_in_flight' = m_attachments_in_flight \ {target[th]}
    /\ Goto(th, "idle")
    /\ UNCHANGED <<browserVars, queue, m_attached_targets, m_targets_mutex,
                   target, session, failed>>

-----------------------------------------------------------------------------
(* attach_to_target()                                                      *)

\* Variant of Attach: only an attachment in progress is respected.
AttachAgain(th) ==
    LET t == target[th]
    IN  /\ pc[th] = "attach"
        /\ m_targets_mutex = None
        /\ IF m_attached_targets[t].attaching
           THEN Goto(th, "leave") /\ UNCHANGED <<m_attached_targets, failed>>
           ELSE /\ m_attached_targets' = [m_attached_targets EXCEPT ![t] = Entry(None, FALSE, TRUE)]
                /\ failed' = failed \ {t}
                /\ Goto(th, "attaching")
        /\ UNCHANGED <<browserVars, queue, m_attachments_in_flight, m_targets_mutex,
                       target, session>>

\* Variant of Attach: the entry just made passes for somebody else's.
AttachNever(th) ==
    LET t == target[th]
    IN  /\ pc[th] = "attach"
        /\ m_targets_mutex = None
        /\ m_attached_targets' = [m_attached_targets EXCEPT ![t].present = TRUE]
        /\ Goto(th, "leave")
        /\ UNCHANGED <<browserVars, queue, m_attachments_in_flight, m_targets_mutex,
                       target, session, failed>>

\* try_emplace() and the test of what was there.
Attach(th) ==
    LET t == target[th]
        e == m_attached_targets[t]
    IN  /\ pc[th] = "attach"
        /\ m_targets_mutex = None
        /\ IF e.attaching \/ e.session_id # None
           THEN Goto(th, "leave") /\ UNCHANGED <<m_attached_targets, failed>>
           ELSE /\ m_attached_targets' =
                    [m_attached_targets EXCEPT ![t].present = TRUE, ![t].attaching = TRUE]
                /\ failed' = failed \ {t}
                /\ Goto(th, "attaching")
        /\ UNCHANGED <<browserVars, queue, m_attachments_in_flight, m_targets_mutex,
                       target, session>>

Alive(th) == page[target[th]] = "live"

\* The browser never gives the id of a session again.
NewSessions(t) ==
    {s \in {t} \X (1 .. MaxChanges + 1) :
        s \notin sessions /\ \A n \in 1 .. s[2] - 1 : <<t, n>> \in sessions}

\* Target.attachToTarget is answered with a session.
Attached(th) ==
    /\ pc[th] = "attaching" /\ Alive(th)
    /\ \E s \in NewSessions(target[th]) :
        /\ sessions' = sessions \cup {s}
        /\ session' = [session EXCEPT ![th] = s]
    /\ Goto(th, "enabling")
    /\ UNCHANGED <<page, changes, scripts, shown, queue, tableVars, target, failed>>

\* Runtime.enable, Page.enable, Page.setBypassCSP and Page.getFrameTree are
\* answered and the session entered, whatever is in the table meanwhile.
Enabled(th) ==
    /\ pc[th] = "enabling" /\ Alive(th)
    /\ Goto(th, "entering")
    /\ UNCHANGED <<browserVars, queue, tableVars, target, session, failed>>

EnterSession(th) ==
    /\ pc[th] = "entering"
    /\ m_targets_mutex = None
    /\ m_attached_targets' = [m_attached_targets EXCEPT
                                 ![target[th]] = Entry(session[th], FALSE, FALSE)]
    /\ Goto(th, "binding")
    /\ UNCHANGED <<browserVars, queue, m_attachments_in_flight, m_targets_mutex,
                   target, session, failed>>

\* One of these requests fails, or is carried out and not answered in time.
AttachFails(th) ==
    /\ pc[th] \in {"attaching", "enabling"}
    /\ \/ UNCHANGED sessions
       \/ /\ pc[th] = "attaching" /\ Alive(th)
          /\ \E s \in NewSessions(target[th]) : sessions' = sessions \cup {s}
    /\ Goto(th, "failing")
    /\ UNCHANGED <<page, changes, scripts, shown, queue, tableVars, target, session, failed>>

\* The catch block of attach_to_target(), or an answer that is of no use.
AttachFailed(th) ==
    /\ pc[th] = "failing"
    /\ m_targets_mutex = None
    /\ m_attached_targets' = [m_attached_targets EXCEPT ![target[th]].attaching = FALSE]
    /\ failed' = failed \cup {target[th]}
    /\ Goto(th, "leave")
    /\ UNCHANGED <<browserVars, queue, m_attachments_in_flight, m_targets_mutex, target, session>>

-----------------------------------------------------------------------------
(* expose_cloude_to_ctx()                                                  *)

\* The entry whose session is that of the thread, if there is one.
Mine(th) ==
    {t \in Targets :
        m_attached_targets[t].present /\ m_attached_targets[t].session_id = session[th]}

\* Runtime.addBinding is answered.
Bound(th) ==
    /\ pc[th] = "binding" /\ Alive(th)
    /\ Goto(th, "replacing")
    /\ UNCHANGED <<browserVars, queue, tableVars, target, session, failed>>

\* An older script of the session is to be removed, with m_targets_mutex held
\* until the browser has answered.  NoWaitUnderLock says that it never comes
\* to that, and the model stops there.
LockForRemoval(th) ==
    /\ pc[th] = "replacing"
    /\ m_targets_mutex = None
    /\ IF \E t \in Mine(th) : m_attached_targets[t].script
       THEN m_targets_mutex' = th /\ Goto(th, "removing")
       ELSE Goto(th, "adding") /\ UNCHANGED m_targets_mutex
    /\ UNCHANGED <<browserVars, queue, m_attached_targets, m_attachments_in_flight,
                   target, session, failed>>

\* Page.addScriptToEvaluateOnNewDocument is answered.
ScriptAdded(th) ==
    /\ pc[th] = "adding" /\ Alive(th)
    /\ scripts' = scripts \cup {session[th]}
    /\ Goto(th, "saving")
    /\ UNCHANGED <<page, changes, sessions, shown, queue, tableVars, target, session, failed>>

SaveScript(th) ==
    /\ pc[th] = "saving"
    /\ m_targets_mutex = None
    /\ m_attached_targets' =
        [t \in Targets |-> IF t \in Mine(th) THEN [m_attached_targets[t] EXCEPT !.script = TRUE]
                           ELSE m_attached_targets[t]]
    /\ Goto(th, "showing")
    /\ UNCHANGED <<browserVars, queue, m_attachments_in_flight, m_targets_mutex,
                   target, session, failed>>

\* Variant of Shown: the page is exposed anew after its reload.
ShownAndExposed(th) ==
    /\ pc[th] = "showing" /\ Alive(th)
    /\ shown' = shown \cup {target[th]}
    /\ Goto(th, "replacing")
    /\ UNCHANGED <<page, changes, sessions, scripts, queue, tableVars, target, session, failed>>

\* Page.reload or Runtime.evaluate is answered.
Shown(th) ==
    /\ pc[th] = "showing" /\ Alive(th)
    /\ shown' = shown \cup {target[th]}
    /\ Goto(th, "leave")
    /\ UNCHANGED <<page, changes, sessions, scripts, queue, tableVars, target, session, failed>>

\* One of these requests fails or is not answered in time, carried out or
\* not: the exception ends expose_cloude_to_ctx(), and the entry stays.
ExposeFails(th) ==
    /\ pc[th] \in {"binding", "adding", "showing"}
    /\ \/ UNCHANGED scripts
       \/ pc[th] = "adding" /\ Alive(th) /\ scripts' = scripts \cup {session[th]}
    /\ failed' = failed \cup {target[th]}
    /\ Goto(th, "leave")
    /\ UNCHANGED <<page, changes, sessions, shown, queue, tableVars, target, session>>

-----------------------------------------------------------------------------

Page(t) == PageOpens(t) \/ PageChanges(t) \/ PageCloses(t)

Handler(th) ==
    \/ Dispatch(th)
    \/ TargetDestroyed(th)
    \/ TargetChanged(th)
    \/ EnterFlight(th)
    \/ LeaveFlight(th)
    \/ Attach(th)
    \/ Attached(th)
    \/ Enabled(th)
    \/ EnterSession(th)
    \/ AttachFails(th)
    \/ AttachFailed(th)
    \/ Bound(th)
    \/ LockForRemoval(th)
    \/ ScriptAdded(th)
    \/ SaveScript(th)
    \/ Shown(th)
    \/ ExposeFails(th)

Next == (\E t \in Targets : Page(t)) \/ (\E th \in Threads : Handler(th))

Spec == Init /\ [][Next]_vars

\* A handler goes on, and its requests are answered or time out after 30 s.
FairSpec == Spec /\ \A th \in Threads : WF_vars(Handler(th))

-----------------------------------------------------------------------------
(* Properties.                                                             *)

(* The comment in expose_cloude_to_ctx(): scripts do not stack.  However    *)
(* created, changed and destroyed handlers of a page overlap and requests   *)
(* fail or are answered late, no page gets the script of two sessions.      *)
NoStacking == \A r, s \in scripts : r[1] = s[1] => r = s

(* m_targets_mutex, which every handler needs, is never held while a        *)
(* response is awaited: a session is exposed once, so that the removal of   *)
(* its older script, the only wait under the lock, finds none.              *)
NoWaitUnderLock == m_targets_mutex = None

(* A page that stays gets its script run although later events of it are    *)
(* dropped while it is being attached, unless the attachment has failed.    *)
PagesAreHooked ==
    \A t \in Targets :
        (page[t] = "live") ~> (t \in shown \/ t \in failed \/ page[t] = "gone")
=============================================================================
