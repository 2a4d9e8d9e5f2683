---------------------------- MODULE MCPersistence ----------------------------
(***************************************************************************)
(* Three services whose files must survive failing writes and crashes, in  *)
(* one TLC run: the transaction of a definition, the uploads' records and  *)
(* staged files, and the message history.  They share no state: `focus' is *)
(* chosen initially and only that module moves, so the states of the run   *)
(* are the sum of theirs, not the product.                                 *)
(***************************************************************************)
EXTENDS DefinitionTransaction, FileUploads, MessageHistory, TLC

CONSTANTS c1, c2, c3, u1, u2

VARIABLE focus

definitionVars == vars

PersistenceInit ==
    /\ focus \in {"definition", "upload", "messages"}
    /\ Init /\ UploadInit /\ MessageInit
    /\ focus # "definition" => files = [config |-> c1, options |-> c1]    \* one is enough
PersistenceNext ==
    \/ focus = "definition" /\ Next /\ UNCHANGED <<focus, uploadVars, messageVars>>
    \/ focus = "upload" /\ UploadNext /\ UNCHANGED <<focus, definitionVars, messageVars>>
    \/ /\ focus = "messages" /\ MessageNext
       /\ UNCHANGED <<focus, definitionVars, uploadVars>>
PersistenceSpec ==
    PersistenceInit /\ [][PersistenceNext]_<<focus, definitionVars, uploadVars, messageVars>>

ASSUME UploadBounds /\ MessageBounds

\* Uploads are interchangeable.
UploadSymmetry == Permutations(Uploads)

\* What was recorded, or told, as final stays: the end of an upload, and what the user
\* has read.
RecordsOnlyAdvance ==
    [][/\ RecordedResultStands /\ PolledResultStands
       /\ ReadStaysRead /\ NewIsUnread]_<<uploadVars, messageVars>>
=============================================================================
