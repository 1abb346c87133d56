------------------------- MODULE PermissionMailbox -------------------------
(***************************************************************************)
(* Permission requests of a session (serve_http/run_handler.rs,            *)
(* permission_api.rs, connection.rs).  A request is kept in two maps under *)
(* two locks: the one-shot sender of the waiting tool call, and what a     *)
(* client may see of the request.  A socket and a REST client may decide   *)
(* the same request; what they see survives a restart, the sender does not.*)
(***************************************************************************)
EXTENDS Naturals

CONSTANTS
    Requests,
    NoRequest,
    Decisions    \* {"allow", "deny"}

NoDecision == "none"

VARIABLES
    senders,     \* keys of pending_permissions
    metas,       \* keys of permission_meta
    metasFile,   \* pending_permissions.json
    shown,       \* requests a client has ever been told of
    answers,     \* what was sent down each one-shot
    restTaken,   \* request whose meta the REST handler has removed, sender not yet
    wsTaken      \* the same of the socket's handler

mailboxVars == <<senders, metas, metasFile, shown, answers, restTaken, wsTaken>>

MailboxInit ==
    /\ senders = {} /\ metas = {} /\ metasFile = {} /\ shown = {}
    /\ answers = [r \in Requests |-> NoDecision]
    /\ restTaken = NoRequest /\ wsTaken = NoRequest

(* make_permission_resolver: first the sender, then what is shown.         *)
InsertSender(r) ==
    /\ senders' = senders \cup {r}
    /\ UNCHANGED <<metas, metasFile, shown, answers, restTaken, wsTaken>>

InsertMeta(r) ==
    /\ metas' = metas \cup {r} /\ shown' = shown \cup {r}
    /\ UNCHANGED <<senders, metasFile, answers, restTaken, wsTaken>>

(* The sender is used up; its send fails when nobody waits any more.       *)
SendTo(r, decision, waiting) ==
    /\ senders' = senders \ {r}
    /\ answers' = IF r \in senders \cap waiting THEN [answers EXCEPT ![r] = decision] ELSE answers

(* resolve_permission, in the two steps between its locks.                 *)
\* Mutant: the sender is removed first.
RestTakesMeta_SenderFirst(r) ==
    /\ restTaken = NoRequest /\ r \in metas
    /\ restTaken' = r /\ senders' = senders \ {r}
    /\ UNCHANGED <<metas, metasFile, shown, answers, wsTaken>>
RestTakesMeta(r) ==
    /\ restTaken = NoRequest /\ r \in metas          \* otherwise 404
    /\ restTaken' = r /\ metas' = metas \ {r}
    /\ UNCHANGED <<senders, metasFile, shown, answers, wsTaken>>

RestSends(decision, waiting) ==
    /\ restTaken # NoRequest
    /\ SendTo(restTaken, decision, waiting)
    /\ metasFile' = metas /\ restTaken' = NoRequest
    /\ UNCHANGED <<metas, shown, wsTaken>>

(* The REST client is gone and its handler is dropped, with the sender     *)
(* still in its map or already taken out of it.                            *)
RestDisconnects ==
    /\ restTaken # NoRequest /\ restTaken' = NoRequest
    /\ senders' \in {senders, senders \ {restTaken}}
    /\ UNCHANGED <<metas, metasFile, shown, answers, wsTaken>>

(* ClientMsg::PermissionDecision: the meta is removed whether it is there  *)
(* or not.                                                                 *)
SocketTakesMeta(r) ==
    /\ wsTaken = NoRequest /\ r \in shown
    /\ wsTaken' = r /\ metas' = metas \ {r}
    /\ UNCHANGED <<senders, metasFile, shown, answers, restTaken>>

SocketSends(decision, waiting) ==
    /\ wsTaken # NoRequest
    /\ SendTo(wsTaken, decision, waiting)
    /\ metasFile' = metas /\ wsTaken' = NoRequest
    /\ UNCHANGED <<metas, shown, restTaken>>

(* SwitchProject: both maps are emptied; the file stays with the project   *)
(* that is left.  It holds the mutex the socket's decision needs.          *)
LeaveProject ==
    /\ wsTaken = NoRequest
    /\ metasFile' = metas /\ senders' = {} /\ metas' = {}
    /\ UNCHANGED <<shown, answers, restTaken, wsTaken>>

(* A restart, or coming back to the project: load_pending_permissions.     *)
LoadMetas ==
    /\ senders' = {} /\ metas' = metasFile
    /\ restTaken' = NoRequest /\ wsTaken' = NoRequest
    /\ UNCHANGED <<metasFile, shown, answers>>
=============================================================================
