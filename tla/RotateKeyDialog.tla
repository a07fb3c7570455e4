---------------------------- MODULE RotateKeyDialog ----------------------------
(***************************************************************************)
(* The dialog of one row that rotates the server's API key: a confirmation *)
(* and a second dialog for the new key, which the Core tells only in this  *)
(* answer.  Rotations take effect in the Core in any order, also after the *)
(* browser has given them up; the row may go and come back (an error of    *)
(* the list, another page) while one is in flight.                         *)
(***************************************************************************)
EXTENDS Naturals

CONSTANT MaxRotations   \* bound on rotations; a key is named by its rotation

ASSUME RotationsAssumption == MaxRotations \in Nat

VARIABLES
    confirming,     \* confirmOpen
    config,         \* agentConfig: "null", "undefined" or "key"
    asked,          \* the rotation the row's mutation follows; 0 for none
    rotations,      \* "none", "sent", "stored", "answered", "failed", or "lost": the
                    \* browser gave it up and the Core may still store it
    activeKey,      \* in the Core; 0 is the key from before
    alone           \* history: at the last click no rotation was lost, and none of an
                    \* earlier mount was in flight

rotateVars == <<confirming, config, asked, rotations, activeKey, alone>>

Rotations == 1 .. MaxRotations
InFlight(n) == rotations[n] \in {"sent", "stored"}

RotateInit ==
    /\ confirming = FALSE
    /\ config = "null"
    /\ asked = 0
    /\ rotations = [n \in Rotations |-> "none"]
    /\ activeKey = 0
    /\ alone = TRUE

\* The second dialog is open unless agentConfig is null; it has fields if it is one.
ConfigOpen == config # "null"

\* The confirmation opens and is cancelled, also while a rotation is in flight.
Confirming ==
    /\ ~ConfigOpen
    /\ confirming' = ~confirming
    /\ UNCHANGED <<config, asked, rotations, activeKey, alone>>

\* isPending of the row's mutation disables the button.
RotatePending == \E n \in Rotations : asked = n /\ InFlight(n)

Unused(n) == rotations[n] = "none" /\ \A m \in 1 .. n - 1 : rotations[m] # "none"

Send(n) ==
    /\ confirming /\ ~ConfigOpen
    /\ Unused(n)
    /\ rotations' = [rotations EXCEPT ![n] = "sent"]
    /\ asked' = n
    /\ alone' = \A m \in Rotations : rotations[m] # "lost" /\ (m # asked => ~InFlight(m))
    /\ UNCHANGED <<confirming, config, activeKey>>

\* Variant: the button is not disabled.
Rotate_NotDisabled(n) == Send(n)

\* handleRotate.
Rotate(n) ==
    /\ ~RotatePending
    /\ Send(n)

\* RotateAPIKey revokes every key and inserts the new one, in one transaction.  If no one
\* waits for the answer any more, that is the end of the rotation.
RotateStored(n) ==
    /\ \/ rotations[n] = "sent" /\ rotations' = [rotations EXCEPT ![n] = "stored"]
       \/ rotations[n] = "lost" /\ rotations' = [rotations EXCEPT ![n] = "failed"]
    /\ activeKey' = n
    /\ UNCHANGED <<confirming, config, asked, alone>>

\* Refused, or no answer comes: the Core may have the request still before it.  The
\* confirmation stays open and nothing is said.
RotateFails(n) ==
    /\ \/ InFlight(n) /\ rotations' = [rotations EXCEPT ![n] = "failed"]
       \/ rotations[n] = "sent" /\ rotations' = [rotations EXCEPT ![n] = "lost"]
    /\ UNCHANGED <<confirming, config, asked, activeKey, alone>>

\* What the handler writes under "data".
RotateAnswerFields == {"server_id", "api_key", "core_url"}

\* onSuccess of handleRotate, if the row is still there: it takes agent_config from the
\* answer and closes the confirmation.
RotateAnswered(n) ==
    /\ rotations[n] = "stored"
    /\ rotations' = [rotations EXCEPT ![n] = "answered"]
    /\ IF asked = n
       THEN /\ config' = IF "agent_config" \in RotateAnswerFields THEN "key" ELSE "undefined"
            /\ confirming' = FALSE
       ELSE UNCHANGED <<config, confirming>>
    /\ UNCHANGED <<asked, activeKey, alone>>

\* Done, Escape or a click outside.
CloseConfig ==
    /\ ConfigOpen
    /\ config' = "null"
    /\ UNCHANGED <<confirming, asked, rotations, activeKey, alone>>

\* The row is rendered anew, with the initial state of its hooks.
RowRemounts ==
    /\ confirming' = FALSE
    /\ config' = "null"
    /\ asked' = 0
    /\ UNCHANGED <<rotations, activeKey, alone>>

RotateNext ==
    \/ Confirming \/ CloseConfig \/ RowRemounts
    \/ \E n \in Rotations :
        Rotate(n) \/ RotateStored(n) \/ RotateFails(n) \/ RotateAnswered(n)

RotateSpec == RotateInit /\ [][RotateNext]_rotateVars

-----------------------------------------------------------------------------
(* Properties.                                                             *)

RotationStates == {"none", "sent", "stored", "answered", "failed", "lost"}

\* The two dialogs are never open at once, and the second one only after a rotation
\* of this row; the active key is one that was made.
RotateTypeOK ==
    /\ confirming \in BOOLEAN
    /\ config \in {"null", "undefined", "key"}
    /\ asked \in 0 .. MaxRotations
    /\ rotations \in [Rotations -> RotationStates]
    /\ activeKey \in 0 .. MaxRotations
    /\ alone \in BOOLEAN
    /\ asked # 0 => rotations[asked] # "none"
    /\ activeKey # 0 => rotations[activeKey] \in {"stored", "failed", "answered"}
    /\ ConfigOpen => ~confirming /\ asked # 0

\* The key of the rotation a row was told of last is the active one, however the
\* person clicked and however the dialogs were opened and closed: the row never has two
\* rotations under way.  Not so if at the click another one could still be stored: one
\* that an earlier mount of the row left in flight, or one that failed for the browser
\* (the confirmation stays open for another try) while the Core still works on it.
ToldKeyIsActive ==
    asked # 0 /\ alone /\ rotations[asked] = "answered" => activeKey = asked

\* What ToldKeyIsActive needs to be inductive: beside a rotation that was sent alone no
\* other one can still be stored.
AloneStaysAlone ==
    asked # 0 /\ alone =>
        /\ \A m \in Rotations \ {asked} : ~InFlight(m) /\ rotations[m] # "lost"
        /\ rotations[asked] = "stored" => activeKey = asked

RotateInv == RotateTypeOK /\ ToldKeyIsActive /\ AloneStaysAlone

\* What the dialog says: "Update konfigurasi agent dengan key baru ini. Key hanya
\* ditampilkan sekali."  It fails: the dialog opens without a key.
RotatedKeyShown == ConfigOpen => config = "key"
=============================================================================
