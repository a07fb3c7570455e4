----------------------------- MODULE ConsoleServers ----------------------------
(***************************************************************************)
(* The page of servers: a cached list, a dialog that creates a server and  *)
(* shows its API key once, and a dialog per row that deletes one.  The     *)
(* person goes on while creations, deletions and list requests are in      *)
(* flight, closes dialogs, and moves to the dashboard, which shows the     *)
(* same list.  One tab; nobody else changes the servers.                   *)
(***************************************************************************)
EXTENDS Naturals, QueryCache

CONSTANTS
    OldServers,     \* servers there before
    MaxCreates      \* bound on creations; a server is named by its creation

ASSUME ServersAssumption ==
    MaxCreates \in Nat /\ OldServers \cap (1 .. MaxCreates) = {} /\ OldServers \subseteq Nat

VARIABLES
    stored,         \* the servers in the Core's table
    list,           \* the query of useServers
    onServers,      \* on /servers, and not on the dashboard
    dialog,         \* the create dialog; asked: the creation its mutation follows
    creates,        \* creations: "sent", "stored" in the Core, "failed", "answered", or
                    \* "lost": the browser gave it up and the Core may still store it
    asking,         \* the servers whose delete dialog is open: at most one
    deletes,        \* deletions, likewise; a failed one is as if it had not been asked for,
    givenUp         \* but the Core may still carry out those the browser gave up

serversVars == <<stored, list, onServers, dialog, creates, asking, deletes, givenUp>>

Creates == 1 .. MaxCreates
AllServers == OldServers \union Creates
ClosedDialog == [open |-> FALSE, asked |-> 0, key |-> 0]
Pending(state) == state \in {"sent", "stored"}

ServersInit ==
    /\ stored = OldServers
    /\ list = Fetch(Unfetched({}), {})
    /\ onServers = TRUE
    /\ dialog = ClosedDialog
    /\ creates = [n \in Creates |-> "none"]
    /\ asking = {}
    /\ deletes = [s \in AllServers |-> "none"]
    /\ givenUp = {}

-----------------------------------------------------------------------------
(* The list.                                                               *)

\* ServersTable is there unless the query is in error, and then has these rows.
Rows == IF onServers /\ list.status # "error" THEN list.data ELSE {}

\* GET /servers: the Core reads its table, and the answer is on its way.
ListRead ==
    /\ list.request = "asked"
    /\ list' = [list EXCEPT !.request = "read", !.carries = stored]
    /\ UNCHANGED <<stored, onServers, dialog, creates, asking, deletes, givenUp>>

\* A row that goes takes its dialog with it.
ListArrives ==
    /\ list.request = "read"
    /\ list' = Succeed(list, list.carries)
    /\ asking' = asking \cap list.carries
    /\ UNCHANGED <<stored, onServers, dialog, creates, deletes, givenUp>>

\* After the last retry the table is replaced by a message.
ListFails ==
    /\ IsFetching(list)
    /\ list' = Fail(list)
    /\ asking' = {}
    /\ UNCHANGED <<stored, onServers, dialog, creates, deletes, givenUp>>

\* The other page mounts; what this one kept is gone, mutations go on without it.
\* Online again, stale data is fetched likewise.
MovePage ==
    /\ onServers' \in BOOLEAN
    /\ list' \in Mounts(list, {})
    /\ dialog' = IF onServers' = onServers THEN dialog ELSE ClosedDialog
    /\ asking' = IF onServers' = onServers THEN asking ELSE {}
    /\ UNCHANGED <<stored, creates, deletes, givenUp>>

-----------------------------------------------------------------------------
(* CreateServerDialog.  It is modal.                                       *)

OpenDialog ==
    /\ onServers /\ asking = {} /\ ~dialog.open
    /\ dialog' = [dialog EXCEPT !.open = TRUE]
    /\ UNCHANGED <<stored, list, onServers, creates, asking, deletes, givenUp>>

\* Variant: the mutation is not reset.
CloseDialog_NoReset ==
    /\ dialog.open
    /\ dialog' = [dialog EXCEPT !.open = FALSE, !.key = 0]
    /\ UNCHANGED <<stored, list, onServers, creates, asking, deletes, givenUp>>

\* handleOpenChange(false): the key is forgotten, and reset() lets go of a mutation
\* in flight.
CloseDialog ==
    /\ dialog.open
    /\ dialog' = ClosedDialog
    /\ UNCHANGED <<stored, list, onServers, creates, asking, deletes, givenUp>>

\* isPending of the mutation the dialog follows.
CreatePending == \E n \in Creates : dialog.asked = n /\ Pending(creates[n])

\* The form is there while no key is shown, its button while nothing is pending.
SubmitCreate(n) ==
    /\ dialog.open /\ dialog.key = 0
    /\ ~CreatePending
    /\ creates[n] = "none" /\ \A m \in 1 .. n - 1 : creates[m] # "none"
    /\ creates' = [creates EXCEPT ![n] = "sent"]
    /\ dialog' = [dialog EXCEPT !.asked = n]
    /\ UNCHANGED <<stored, list, onServers, asking, deletes, givenUp>>

\* CreateServer of the Core commits, perhaps after the browser has given the request up.
CreateStored(n) ==
    /\ \/ creates[n] = "sent" /\ creates' = [creates EXCEPT ![n] = "stored"]
       \/ creates[n] = "lost" /\ creates' = [creates EXCEPT ![n] = "failed"]
    /\ stored' = stored \union {n}
    /\ UNCHANGED <<list, onServers, dialog, asking, deletes, givenUp>>

\* Refused, or no answer comes: the server may be there, or will be, and its key is
\* nowhere.
CreateFails(n) ==
    /\ \/ Pending(creates[n]) /\ creates' = [creates EXCEPT ![n] = "failed"]
       \/ creates[n] = "sent" /\ creates' = [creates EXCEPT ![n] = "lost"]
    /\ UNCHANGED <<stored, list, onServers, dialog, asking, deletes, givenUp>>

\* Variant: useCreateServer leaves the list alone.
CreateAnswered_NoInvalidate(n) ==
    /\ creates[n] = "stored"
    /\ creates' = [creates EXCEPT ![n] = IF list.has THEN "answered" ELSE "early"]
    /\ dialog' = IF dialog.asked = n THEN [dialog EXCEPT !.key = n] ELSE dialog
    /\ UNCHANGED <<list, stored, onServers, asking, deletes, givenUp>>

\* The hook's onSuccess invalidates the list, wherever the person is; the dialog shows
\* agent_config if it still follows this creation.  "early": the first list was still
\* in flight, and the invalidation does not replace its request.
CreateAnswered(n) ==
    /\ creates[n] = "stored"
    /\ creates' = [creates EXCEPT ![n] = IF list.has THEN "answered" ELSE "early"]
    /\ list' = Invalidate(list, {})
    /\ dialog' = IF dialog.asked = n THEN [dialog EXCEPT !.key = n] ELSE dialog
    /\ UNCHANGED <<stored, onServers, asking, deletes, givenUp>>

-----------------------------------------------------------------------------
(* DeleteServerDialog, one per row.                                        *)

AskDelete(s) ==
    /\ s \in Rows /\ asking = {} /\ ~dialog.open
    /\ asking' = {s}
    /\ UNCHANGED <<stored, list, onServers, dialog, creates, deletes, givenUp>>

CancelDelete ==
    /\ asking # {}
    /\ asking' = {}
    /\ UNCHANGED <<stored, list, onServers, dialog, creates, deletes, givenUp>>

\* The action closes the dialog.  Its button is disabled while a deletion is pending.
\* Bound: one in flight for a server, also if its row was mounted again.
ConfirmDelete(s) ==
    /\ asking = {s}
    /\ ~Pending(deletes[s])
    /\ deletes' = [deletes EXCEPT ![s] = "sent"]
    /\ asking' = {}
    /\ UNCHANGED <<stored, list, onServers, dialog, creates, givenUp>>

DeleteStored(s) ==
    /\ deletes[s] = "sent"
    /\ s \in stored
    /\ stored' = stored \ {s}
    /\ deletes' = [deletes EXCEPT ![s] = "stored"]
    /\ UNCHANGED <<list, onServers, dialog, creates, asking, givenUp>>

\* Refused, 404 or given up.  Nothing tells the person, and the list stays as it is.
DeleteFails(s) ==
    /\ Pending(deletes[s])
    /\ deletes' = [deletes EXCEPT ![s] = "none"]
    /\ givenUp' \in {givenUp, IF deletes[s] = "sent" THEN givenUp \union {s} ELSE givenUp}
    /\ UNCHANGED <<stored, list, onServers, dialog, creates, asking>>

\* The Core carries out a deletion no one waits for any more.
DeleteStoredLate(s) ==
    /\ s \in givenUp
    /\ stored' = stored \ {s}
    /\ givenUp' = givenUp \ {s}
    /\ UNCHANGED <<list, onServers, dialog, creates, asking, deletes>>

\* useDeleteServer invalidates the list.
DeleteAnswered(s) ==
    /\ deletes[s] = "stored"
    /\ deletes' = [deletes EXCEPT ![s] = "answered"]
    /\ list' = Invalidate(list, {})
    /\ UNCHANGED <<stored, onServers, dialog, creates, asking, givenUp>>

-----------------------------------------------------------------------------
ServersNext ==
    \/ ListRead \/ ListArrives \/ ListFails \/ MovePage
    \/ OpenDialog \/ CloseDialog
    \/ \E n \in Creates :
        SubmitCreate(n) \/ CreateStored(n) \/ CreateFails(n) \/ CreateAnswered(n)
    \/ \E s \in AllServers :
        AskDelete(s) \/ ConfirmDelete(s) \/ DeleteStored(s) \/ DeleteFails(s)
        \/ DeleteStoredLate(s) \/ DeleteAnswered(s)
    \/ CancelDelete

ServersSpec == ServersInit /\ [][ServersNext]_serversVars

-----------------------------------------------------------------------------
(* Properties.                                                             *)

ListQueries ==
    [has : BOOLEAN, data : SUBSET AllServers,
     status : {"pending", "success", "error"}, invalid : BOOLEAN,
     request : {"idle", "asked", "read"}, carries : SUBSET AllServers]

CreateStates == {"none", "sent", "stored", "failed", "lost", "answered", "early"}

\* Requests, dialogs and mutations fit together: a dialog follows a creation that was
\* sent, and shows the key of no other; a delete dialog is on its row.
ServersTypeOK ==
    /\ stored \subseteq AllServers
    /\ list \in ListQueries
    /\ onServers \in BOOLEAN
    /\ dialog \in [open : BOOLEAN, asked : 0 .. MaxCreates, key : 0 .. MaxCreates]
    /\ creates \in [Creates -> CreateStates]
    /\ asking \subseteq Rows /\ \A s, t \in asking : s = t
    /\ deletes \in [AllServers -> {"none", "sent", "stored", "answered"}]
    /\ givenUp \subseteq AllServers
    /\ dialog.open => onServers
    /\ dialog.key \in {0, dialog.asked}
    /\ list.status = "pending" => IsFetching(list)
    /\ list.status = "success" => list.has
    /\ ~list.has => list.data = {}

\* A closed dialog has no key, although the creation it was closed on may be answered
\* at any time: the next one to open it finds the form and no key.
ClosedDialogForgets == ~dialog.open => dialog.key = 0

\* A list that is not being fetched again shows what this tab was told of: no server
\* whose deletion was answered, and every server whose creation was answered when
\* there was a list already, as long as it exists.
ListHasOwnChanges ==
    list.status = "success" /\ ~IsFetching(list) =>
        /\ \A s \in AllServers : deletes[s] = "answered" => s \notin list.data
        /\ \A n \in Creates :
            creates[n] = "answered" /\ n \in stored => n \in list.data

\* The inductive invariant, in parts: a closed dialog is as good as new,
ClosedDialogIsNew == ~dialog.open => dialog = ClosedDialog

\* nothing is seen of a server before it is created,
SeenWereStored ==
    \A n \in Creates :
        n \in stored \union list.data \union list.carries \/ deletes[n] # "none"
            => creates[n] \notin {"none", "sent", "lost"}

\* a deleted server does not come back,
DeletedAreGone == \A s \in AllServers : deletes[s] \in {"stored", "answered"} => s \notin stored

\* what was deleted, or created and is known, was so with a list there,
ListWasThere ==
    /\ \A s \in AllServers : deletes[s] # "none" => list.has
    /\ \A n \in Creates : creates[n] = "answered" => list.has

\* and an answer on its way has the changes, too.
AnswerHasOwnChanges ==
    list.request = "read" =>
        /\ \A s \in AllServers : deletes[s] = "answered" => s \notin list.carries
        /\ \A n \in Creates :
            creates[n] = "answered" /\ n \in stored => n \in list.carries

ServersInv ==
    /\ ServersTypeOK
    /\ ClosedDialogForgets
    /\ ListHasOwnChanges
    /\ ClosedDialogIsNew
    /\ SeenWereStored
    /\ DeletedAreGone
    /\ ListWasThere
    /\ AnswerHasOwnChanges
=============================================================================
