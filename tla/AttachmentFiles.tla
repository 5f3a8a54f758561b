--------------------------- MODULE AttachmentFiles --------------------------
(***************************************************************************)
(* What the upload protocol promises of the files of a library, with the   *)
(* handlers, the states of pending rows, cleanup passes, restarts and the  *)
(* clock left out.  An upload is an offer to replace the file of one item, *)
(* provided that the file still has the md5 the client named.  It is taken *)
(* at most once, and only when its bytes are stored; an offer that is      *)
(* withdrawn never comes back.  Bytes are removed from the bucket only     *)
(* when no offer and no file can need them.                                *)
(***************************************************************************)
CONSTANTS Items, Uploads, Hashes, None

VARIABLES
  attachment,   \* whether each item is a live stored-file attachment
  file,         \* the registered file of each item
  issued,       \* the uploads handed out so far
  offer,        \* what each open upload would replace, None when not open
  stored        \* the uploads whose bytes the bucket holds

vars == <<attachment, file, issued, offer, stored>>

Md5Of(k) == IF file[k] = None THEN None ELSE file[k].md5

Init ==
  /\ attachment = [k \in Items |-> FALSE]
  /\ file = [k \in Items |-> None]
  /\ issued = {} /\ stored = {}
  /\ offer = [u \in Uploads |-> None]

(* An item becomes an attachment without a file, or ceases to be one.      *)
Attach(k) ==
  /\ attachment' = [attachment EXCEPT ![k] = TRUE]
  /\ UNCHANGED <<file, issued, offer, stored>>

Detach(k) ==
  /\ attachment' = [attachment EXCEPT ![k] = FALSE]
  /\ file' = [file EXCEPT ![k] = None]
  /\ UNCHANGED <<issued, offer, stored>>

Authorize(u, k, expected, md5) ==
  /\ u \notin issued
  /\ issued' = issued \union {u}
  /\ offer' = [offer EXCEPT ![u] =
                 [item |-> k, expected |-> expected, md5 |-> md5]]
  /\ UNCHANGED <<attachment, file, stored>>

(* The bytes arrive, perhaps again, perhaps when nobody waits for them.    *)
Store(u) ==
  /\ u \in issued
  /\ stored' = stored \union {u}
  /\ UNCHANGED <<attachment, file, issued, offer>>

(* The one step that gives an item a file.                                 *)
Register(u) ==
  /\ offer[u] # None /\ u \in stored
  /\ LET k == offer[u].item
     IN /\ attachment[k] /\ Md5Of(k) = offer[u].expected
        /\ file' = [file EXCEPT ![k] = [blob |-> u, md5 |-> offer[u].md5]]
  /\ offer' = [offer EXCEPT ![u] = None]
  /\ UNCHANGED <<attachment, issued, stored>>

Withdraw(refused) ==
  /\ offer' = [u \in Uploads |-> IF u \in refused THEN None ELSE offer[u]]
  /\ UNCHANGED <<attachment, file, issued, stored>>

Remove(u) ==
  /\ offer[u] = None
  /\ \A k \in Items : file[k] # None => file[k].blob # u
  /\ stored' = stored \ {u}
  /\ UNCHANGED <<attachment, file, issued, offer>>

Next ==
  \/ \E k \in Items : Attach(k) \/ Detach(k)
  \/ \E u \in Uploads :
       \/ Store(u) \/ Register(u) \/ Remove(u)
       \/ \E k \in Items, expected \in {None} \union Hashes, md5 \in Hashes :
            Authorize(u, k, expected, md5)
  \/ \E refused \in SUBSET Uploads : Withdraw(refused)

Spec == Init /\ [][Next]_vars
=============================================================================
