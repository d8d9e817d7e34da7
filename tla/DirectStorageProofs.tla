------------------------- MODULE DirectStorageProofs -------------------------
(***************************************************************************)
(* For any number of connections, accounts, messages and prekeys, and with *)
(* every statement a step: a prekey and a message are taken at most once,  *)
(* nothing is left of an account that is gone, every commit is a request   *)
(* of AtomicStorage, and an inbox goes only so far beyond its limit.       *)
(***************************************************************************)
EXTENDS DirectStorage, FiniteSetTheorems, TLAPS

StorageTypes ==
    /\ accounts \subseteq Account
    /\ messageSeq \in 0..MaxMessage /\ prekeySeq \in 0..MaxPrekey
    /\ messages \subseteq Message
    /\ prekeys \subseteq Prekey
    /\ bundles \subseteq Account
    /\ conn \in [Connection -> Transaction]
    /\ posts \subseteq Post /\ postSeq \in 0..MaxPost
    /\ receipts \subseteq Receipt /\ overlapped \subseteq PostId
    /\ ended \in [MessageId -> Nat] /\ handedOut \in [PrekeyId -> Nat]

\* A message has an id of its own and has not been ended; whoever is ending it
\* has locked it, and nobody else has.
MessagesOnce ==
    /\ \A m \in messages : m.id <= messageSeq /\ ended[m.id] = 0
    /\ \A m, n \in messages : m.id = n.id => m = n
    /\ \A i \in MessageId : i > messageSeq => ended[i] = 0
    /\ \A c \in Connection : At(c, "inserted") =>
         /\ conn[c].row.id <= messageSeq
         /\ ended[conn[c].row.id] = 0
         /\ \A m \in messages : m.id # conn[c].row.id
         /\ \A d \in Connection \ {c} :
              At(d, "inserted") => conn[d].row.id # conn[c].row.id
    /\ \A c \in Connection : At(c, "ended") =>
         /\ conn[c].row \in messages
         /\ \A d \in Connection \ {c} : At(d, "ended") => conn[d].row # conn[c].row
    /\ \A i \in MessageId : ended[i] <= 1

\* The same of prekeys: those in store, those on their way, those being popped.
PrekeysOnce ==
    /\ \A p \in prekeys : p.id <= prekeySeq /\ handedOut[p.id] = 0
    /\ \A p, q \in prekeys : p.id = q.id => p = q
    /\ \A i \in PrekeyId : i > prekeySeq => handedOut[i] = 0
    /\ \A c \in Connection : At(c, "uploaded") => \A i \in conn[c].ids :
         /\ i <= prekeySeq
         /\ handedOut[i] = 0
         /\ \A p \in prekeys : p.id # i
         /\ \A d \in Connection \ {c} : At(d, "uploaded") => i \notin conn[d].ids
    /\ \A c \in Connection : At(c, "popped") =>
         /\ conn[c].row \in prekeys
         /\ \A d \in Connection \ {c} : At(d, "popped") => conn[d].row # conn[c].row
    /\ \A i \in PrekeyId : handedOut[i] <= 1

Acknowledging == {"acknowledged", "kept", "last"}

\* A group message is on its way, or in the table with its receipts; whoever
\* revokes it or acknowledges it has locked the row, and who has found no other
\* receipt is right.
PostsOnce ==
    /\ \A m \in posts : m.id <= postSeq
    /\ \A r \in receipts : r.post <= postSeq
    /\ \A c \in Connection : conn[c].stage \in {"posted", "addressed"} =>
         /\ conn[c].row.id <= postSeq
         /\ \A r \in receipts : r.post # conn[c].row.id
         /\ \A d \in Connection \ {c} :
              conn[d].stage \in {"posted", "addressed"} => conn[d].row.id # conn[c].row.id
    /\ \A c \in Connection : At(c, "withdrawn") =>
         /\ conn[c].row \in posts
         /\ \A d \in Connection \ {c} : At(d, "withdrawn") => conn[d].row # conn[c].row
         /\ \A d \in Connection : conn[d].stage \in Acknowledging =>
              conn[d].row.post # conn[c].row.id
    /\ \A c \in Connection : conn[c].stage \in Acknowledging =>
         /\ conn[c].row \in receipts
         /\ \A d \in Connection \ {c} :
              conn[d].stage \in Acknowledging => conn[d].row # conn[c].row
    /\ \A c \in Connection : At(c, "last") =>
         \A r \in receipts : r.post = conn[c].row.post => r = conn[c].row

\* What an open insert refers to is there, and is not about to be deleted.
ReferencesHold ==
    /\ NothingOfDeletedAccounts
    /\ \A c \in Connection, u \in Account :
         Refers(c, u) => u \in accounts /\ ~Deleting(u)

StorageInvariant ==
    /\ StorageTypes
    /\ MessagesOnce
    /\ PrekeysOnce
    /\ PostsOnce
    /\ ReferencesHold
-----------------------------------------------------------------------------
(* Transactions. *)

\* What a transaction knows at each of its stages.
LEMMA Stages ==
    ASSUME StorageTypes, NEW c \in Connection
    PROVE  /\ conn[c].stage \in {"inserted", "ended"} => conn[c].row \in Message
           /\ conn[c].stage \in {"chosen", "popped"} => conn[c].row \in Prekey
           /\ conn[c].stage \in {"upserted", "published", "deleting", "uploaded"}
                => conn[c].user \in Account
           /\ At(c, "uploaded") => conn[c].ids \subseteq PrekeyId
           /\ conn[c].stage \in {"posted", "withdrawn", "addressed"} => conn[c].row \in Post
           /\ At(c, "addressed") => conn[c].to \subseteq Account
           /\ conn[c].stage \in Acknowledging => conn[c].row \in Receipt
<1>1. conn[c] \in Transaction BY DEF StorageTypes
<1> QED BY <1>1 DEF Transaction, Idle, At, Acknowledging

\* A step of one connection leaves the transactions of others as they are.
LEMMA OneConnection ==
    ASSUME StorageTypes, NEW c \in Connection, NEW t, Open(c, t)
    PROVE  conn'[c] = t /\ \A d \in Connection \ {c} : conn'[d] = conn[d]
BY DEF StorageTypes, Open

\* Each stage is a transaction.
LEMMA StageTypes ==
    /\ Idle \in Transaction /\ Idle.stage = "idle"
    /\ \A m \in Message, st \in {"inserted", "ended"} :
         [stage |-> st, row |-> m] \in Transaction
    /\ \A p \in Prekey, st \in {"chosen", "popped"} :
         [stage |-> st, row |-> p] \in Transaction
    /\ \A u \in Account, st \in {"upserted", "published", "deleting"} :
         [stage |-> st, user |-> u] \in Transaction
    /\ \A u \in Account, ids \in SUBSET PrekeyId :
         [stage |-> "uploaded", user |-> u, ids |-> ids] \in Transaction
    /\ \A m \in Post, st \in {"posted", "withdrawn"} :
         [stage |-> st, row |-> m] \in Transaction
    /\ \A m \in Post, to \in SUBSET Account :
         [stage |-> "addressed", row |-> m, to |-> to] \in Transaction
    /\ \A r \in Receipt, st \in Acknowledging : [stage |-> st, row |-> r] \in Transaction
BY DEF Transaction, Idle, Acknowledging
-----------------------------------------------------------------------------
(* What each part of the invariant does not depend on. *)

\* A connection that turns to something else leaves messages alone.
LEMMA MessagesRest ==
    ASSUME StorageTypes, MessagesOnce, NEW c \in Connection, NEW t, Open(c, t),
           t.stage \notin {"inserted", "ended"}, UNCHANGED messageVars
    PROVE  MessagesOnce'
<1>1. conn'[c] = t /\ \A d \in Connection \ {c} : conn'[d] = conn[d]
  BY OneConnection
<1> QED BY <1>1 DEF MessagesOnce, At, messageVars

\* The same of prekeys.
LEMMA PrekeysRest ==
    ASSUME StorageTypes, PrekeysOnce, NEW c \in Connection, NEW t, Open(c, t),
           t.stage \notin {"uploaded", "popped"},
           UNCHANGED <<prekeys, prekeySeq, handedOut>>
    PROVE  PrekeysOnce'
<1>1. conn'[c] = t /\ \A d \in Connection \ {c} : conn'[d] = conn[d]
  BY OneConnection
<1> QED BY <1>1 DEF PrekeysOnce, At

\* The same of messages to the group.
LEMMA PostsRest ==
    ASSUME StorageTypes, PostsOnce, NEW c \in Connection, NEW t, Open(c, t),
           t.stage \notin {"posted", "addressed", "withdrawn"} \cup Acknowledging,
           UNCHANGED postVars
    PROVE  PostsOnce'
<1>1. conn'[c] = t /\ \A d \in Connection \ {c} : conn'[d] = conn[d]
  BY OneConnection
<1>2. conn'[c].stage \notin {"posted", "addressed", "withdrawn"} \cup Acknowledging
  BY <1>1
<1> QED BY <1>1, <1>2 DEF PostsOnce, At, postVars, Acknowledging

\* Rows that go, and transactions that refer to nothing, break no reference.
LEMMA ReferencesRest ==
    ASSUME StorageTypes, ReferencesHold, NEW c \in Connection, NEW t, Open(c, t),
           t.stage \notin {"inserted", "upserted", "uploaded", "deleting", "posted", "addressed"},
           UNCHANGED <<accounts, bundles, posts, receipts>>,
           messages' \subseteq messages, prekeys' \subseteq prekeys
    PROVE  ReferencesHold'
<1>1. conn'[c] = t /\ \A d \in Connection \ {c} : conn'[d] = conn[d]
  BY OneConnection
<1>2. NothingOfDeletedAccounts' BY DEF ReferencesHold, NothingOfDeletedAccounts, postVars
<1>3. \A d \in Connection, u \in Account :
        Refers(d, u)' => Refers(d, u) /\ u \in accounts /\ ~Deleting(u)
  BY <1>1 DEF ReferencesHold, Refers, At
<1>4. \A u \in Account : Deleting(u)' => Deleting(u) BY <1>1 DEF Deleting, At
<1> QED BY <1>2, <1>3, <1>4 DEF ReferencesHold
-----------------------------------------------------------------------------
(* Messages. *)

\* A new id is used by nobody, and the accounts of the message are held.
LEMMA StoreMessageKeeps ==
    ASSUME StorageInvariant, NEW c \in Connection, NEW s \in Account, NEW r \in Account,
           store_message(c, s, r)
    PROVE  StorageInvariant'
<1> DEFINE new == [id |-> messageSeq + 1, sender |-> s, recipient |-> r]
           t == [stage |-> "inserted", row |-> new]
<1> USE DEF StorageInvariant
<1>1. /\ Open(c, t) /\ messageSeq' = messageSeq + 1 /\ messageSeq' \in 1..MaxMessage
      /\ UNCHANGED <<accounts, messages, ended, bundles, prekeys, prekeySeq, handedOut, postVars>>
  BY StorageBoundsAssumption DEF store_message, keyVars, StorageTypes
<1>2. new \in Message /\ t \in Transaction
  BY <1>1, StageTypes DEF Message, MessageId
<1>3. /\ conn'[c] = t /\ \A d \in Connection \ {c} : conn'[d] = conn[d]
  BY <1>1, OneConnection
<1>4. StorageTypes' BY <1>1, <1>2, StorageBoundsAssumption DEF StorageTypes, Open, postVars
<1>5. MessagesOnce'
  <2>1. messageSeq \in Nat /\ \A m \in messages : m.id \in Nat
    BY StorageBoundsAssumption DEF StorageTypes, Message, MessageId
  <2>2. \A d \in Connection : At(d, "inserted") => conn[d].row.id \in Nat
    BY Stages DEF At, Message, MessageId
  <2>3. ended[messageSeq + 1] = 0
    BY <1>1, <2>1, StorageBoundsAssumption DEF MessagesOnce, MessageId
  <2>4. \A i \in MessageId : i \in Nat BY DEF MessageId
  <2> QED BY <1>1, <1>3, <2>1, <2>2, <2>3, <2>4 DEF MessagesOnce, At
<1>6. PrekeysOnce' /\ PostsOnce' BY <1>1, PrekeysRest, PostsRest DEF Acknowledging
<1>7. ReferencesHold'
  <2>1. NothingOfDeletedAccounts' BY <1>1 DEF ReferencesHold, NothingOfDeletedAccounts, postVars
  <2>2. \A u \in Account : Deleting(u)' => Deleting(u) BY <1>3 DEF Deleting, At
  <2>3. \A d \in Connection, u \in Account : Refers(d, u)' =>
          Refers(d, u) \/ u \in {s, r}
    BY <1>3 DEF Refers, At
  <2>4. \A u \in {s, r} : u \in accounts /\ ~Deleting(u)
    BY DEF store_message, Referable
  <2> QED BY <1>1, <2>1, <2>2, <2>3, <2>4 DEF ReferencesHold
<1> QED BY <1>4, <1>5, <1>6, <1>7

\* What was on its way is in store.
LEMMA CommitMessageKeeps ==
    ASSUME StorageInvariant, NEW c \in Connection, commit_message(c)
    PROVE  StorageInvariant'
<1> USE DEF StorageInvariant
<1>1. /\ Open(c, Idle) /\ messages' = messages \cup {conn[c].row}
      /\ UNCHANGED <<accounts, messageSeq, ended, bundles, prekeys, prekeySeq, handedOut, postVars>>
  BY DEF commit_message, Close, Open, keyVars
<1>2. /\ conn'[c] = Idle /\ \A d \in Connection \ {c} : conn'[d] = conn[d]
      /\ Idle.stage = "idle"
  BY <1>1, OneConnection, StageTypes
<1>3. At(c, "inserted") /\ conn[c].row \in Message BY Stages DEF commit_message, At
<1>4. StorageTypes' BY <1>1, <1>3, StageTypes DEF StorageTypes, Open, postVars
<1>5. MessagesOnce'
  BY <1>1, <1>2, <1>3 DEF MessagesOnce, At
<1>6. PrekeysOnce' /\ PostsOnce' BY <1>1, StageTypes, PrekeysRest, PostsRest DEF Acknowledging
<1>7. ReferencesHold'
  <2>1. conn[c].row.sender \in Account /\ conn[c].row.recipient \in Account
    BY <1>3 DEF Message
  <2>2. Refers(c, conn[c].row.sender) /\ Refers(c, conn[c].row.recipient)
    BY <1>3 DEF Refers
  <2>3. conn[c].row.sender \in accounts /\ conn[c].row.recipient \in accounts
    BY <2>1, <2>2 DEF ReferencesHold
  <2>4. NothingOfDeletedAccounts'
    BY <1>1, <2>3 DEF ReferencesHold, NothingOfDeletedAccounts, postVars
  <2>5. \A u \in Account : Deleting(u)' => Deleting(u) BY <1>2 DEF Deleting, At
  <2>6. \A d \in Connection, u \in Account : Refers(d, u)' => Refers(d, u)
    BY <1>2 DEF Refers, At
  <2> QED BY <1>1, <2>4, <2>5, <2>6 DEF ReferencesHold
<1> QED BY <1>4, <1>5, <1>6, <1>7

\* One transaction at a time deletes a message.
LEMMA DeleteMessageKeeps ==
    ASSUME StorageInvariant, NEW c \in Connection, NEW m \in messages,
           delete_message(c, m)
    PROVE  StorageInvariant'
<1> DEFINE t == [stage |-> "ended", row |-> m]
<1> USE DEF StorageInvariant
<1>1. Open(c, t)
      /\ UNCHANGED <<accounts, messages, messageSeq, ended, bundles, prekeys,
                     prekeySeq, handedOut, postVars>>
  BY DEF delete_message, messageVars, keyVars
<1>2. conn'[c] = t /\ \A d \in Connection \ {c} : conn'[d] = conn[d]
  BY <1>1, OneConnection
<1>3. m \in Message /\ t \in Transaction BY StageTypes DEF StorageTypes
<1>4. StorageTypes' BY <1>1, <1>3 DEF StorageTypes, Open, postVars
<1>5. \A d \in Connection : At(d, "ended") => conn[d].row # m
  BY DEF delete_message, Ends, Locked, Deletes, At
<1>6. MessagesOnce' BY <1>1, <1>2, <1>5 DEF MessagesOnce, At
<1>7. PrekeysOnce' /\ PostsOnce' BY <1>1, PrekeysRest, PostsRest DEF Acknowledging
<1>8. ReferencesHold' BY <1>1, ReferencesRest DEF postVars
<1> QED BY <1>4, <1>6, <1>7, <1>8

\* The message goes, and its id is not in store again.
LEMMA CommitEndKeeps ==
    ASSUME StorageInvariant, NEW c \in Connection, commit_end(c)
    PROVE  StorageInvariant'
<1> USE DEF StorageInvariant
<1>1. /\ Open(c, Idle) /\ messages' = messages \ {conn[c].row}
      /\ ended' = [ended EXCEPT ![conn[c].row.id] = @ + 1]
      /\ UNCHANGED <<accounts, messageSeq, bundles, prekeys, prekeySeq, handedOut, postVars>>
  BY DEF commit_end, Close, Open, keyVars
<1>2. /\ conn'[c] = Idle /\ \A d \in Connection \ {c} : conn'[d] = conn[d]
      /\ Idle.stage = "idle"
  BY <1>1, OneConnection, StageTypes
<1>3. /\ At(c, "ended") /\ conn[c].row \in Message /\ conn[c].row.id \in MessageId
  BY Stages DEF commit_end, At, Message
<1>4. StorageTypes' BY <1>1, <1>3, StageTypes DEF StorageTypes, Open, postVars
<1>5. MessagesOnce'
  <2>1. conn[c].row \in messages /\ ended[conn[c].row.id] = 0
        /\ conn[c].row.id <= messageSeq
    BY <1>3 DEF MessagesOnce
  <2>2. ended'[conn[c].row.id] = 1
        /\ \A i \in MessageId \ {conn[c].row.id} : ended'[i] = ended[i]
    BY <1>1, <1>3, <2>1 DEF StorageTypes
  <2>3. \A m \in messages' : m \in messages /\ m.id # conn[c].row.id
                             /\ m.id \in MessageId
    BY <1>1, <2>1 DEF MessagesOnce, StorageTypes, Message
  <2>4. \A m \in messages' : m.id <= messageSeq' /\ ended'[m.id] = 0
    BY <1>1, <2>2, <2>3 DEF MessagesOnce
  <2>5. \A m, n \in messages' : m.id = n.id => m = n BY <2>3 DEF MessagesOnce
  <2>6. \A i \in MessageId : i > messageSeq' => ended'[i] = 0
    <3>1. \A i \in MessageId : i > messageSeq => i # conn[c].row.id
      BY <1>3, <2>1 DEF MessageId, StorageTypes
    <3> QED BY <1>1, <2>2, <3>1 DEF MessagesOnce
  <2>7. ASSUME NEW d \in Connection, At(d, "inserted")'
        PROVE  /\ conn'[d].row.id <= messageSeq'
               /\ ended'[conn'[d].row.id] = 0
               /\ \A m \in messages' : m.id # conn'[d].row.id
               /\ \A e \in Connection \ {d} :
                    At(e, "inserted")' => conn'[e].row.id # conn'[d].row.id
    <3>1. d # c /\ At(d, "inserted") /\ conn'[d] = conn[d] BY <1>2, <2>7 DEF At
    <3>2. conn[d].row.id \in MessageId BY <3>1, Stages DEF At, Message
    <3>3. conn[d].row.id # conn[c].row.id BY <2>1, <3>1 DEF MessagesOnce
    <3>4. \A e \in Connection \ {d} :
            At(e, "inserted")' => conn'[e].row.id # conn'[d].row.id
      BY <1>2, <3>1 DEF MessagesOnce, At
    <3> QED BY <1>1, <2>2, <2>3, <3>1, <3>2, <3>3, <3>4 DEF MessagesOnce
  <2>8. ASSUME NEW d \in Connection, At(d, "ended")'
        PROVE  /\ conn'[d].row \in messages'
               /\ \A e \in Connection \ {d} :
                    At(e, "ended")' => conn'[e].row # conn'[d].row
    <3>1. d # c /\ At(d, "ended") /\ conn'[d] = conn[d] BY <1>2, <2>8 DEF At
    <3> QED BY <1>1, <1>2, <1>3, <3>1 DEF MessagesOnce, At
  <2>9. \A i \in MessageId : ended'[i] <= 1 BY <1>3, <2>2 DEF MessagesOnce
  <2> QED BY <2>4, <2>5, <2>6, <2>7, <2>8, <2>9 DEF MessagesOnce
<1>6. PrekeysOnce' /\ PostsOnce' BY <1>1, StageTypes, PrekeysRest, PostsRest DEF Acknowledging
<1>7. ReferencesHold' BY <1>1, StageTypes, ReferencesRest DEF postVars
<1> QED BY <1>4, <1>5, <1>6, <1>7
-----------------------------------------------------------------------------
(* Keys. *)

\* The upsert holds the account.
LEMMA StoreKeyBundleKeeps ==
    ASSUME StorageInvariant, NEW c \in Connection, NEW u \in Account,
           store_key_bundle(c, u)
    PROVE  StorageInvariant'
<1> DEFINE t == [stage |-> "upserted", user |-> u]
<1> USE DEF StorageInvariant
<1>1. Open(c, t)
      /\ UNCHANGED <<accounts, messages, messageSeq, ended, bundles, prekeys,
                     prekeySeq, handedOut, postVars>>
  BY DEF store_key_bundle, messageVars, keyVars
<1>2. conn'[c] = t /\ \A d \in Connection \ {c} : conn'[d] = conn[d]
  BY <1>1, OneConnection
<1>3. StorageTypes' BY <1>1, StageTypes DEF StorageTypes, Open, postVars
<1>4. MessagesOnce' BY <1>1, MessagesRest DEF messageVars
<1>5. PrekeysOnce' /\ PostsOnce' BY <1>1, PrekeysRest, PostsRest DEF Acknowledging
<1>6. ReferencesHold'
  <2>1. NothingOfDeletedAccounts' BY <1>1 DEF ReferencesHold, NothingOfDeletedAccounts, postVars
  <2>2. \A v \in Account : Deleting(v)' => Deleting(v) BY <1>2 DEF Deleting, At
  <2>3. \A d \in Connection, v \in Account : Refers(d, v)' => Refers(d, v) \/ v = u
    BY <1>2 DEF Refers, At
  <2>4. u \in accounts /\ ~Deleting(u) BY DEF store_key_bundle, Referable
  <2> QED BY <1>1, <2>1, <2>2, <2>3, <2>4 DEF ReferencesHold
<1> QED BY <1>3, <1>4, <1>5, <1>6

\* The bundle is of an account that is there.
LEMMA CommitBundleKeeps ==
    ASSUME StorageInvariant, NEW c \in Connection, commit_bundle(c)
    PROVE  StorageInvariant'
<1> DEFINE t == [stage |-> "published", user |-> conn[c].user]
<1> USE DEF StorageInvariant
<1>1. Open(c, t) /\ bundles' = bundles \cup {conn[c].user}
      /\ UNCHANGED <<accounts, messages, messageSeq, ended, prekeys, prekeySeq, handedOut, postVars>>
  BY DEF commit_bundle, messageVars
<1>2. conn'[c] = t /\ \A d \in Connection \ {c} : conn'[d] = conn[d]
  BY <1>1, OneConnection
<1>3. At(c, "upserted") /\ conn[c].user \in Account BY Stages DEF commit_bundle, At
<1>4. StorageTypes' BY <1>1, <1>3, StageTypes DEF StorageTypes, Open, postVars
<1>5. MessagesOnce' BY <1>1, MessagesRest DEF messageVars
<1>6. PrekeysOnce' /\ PostsOnce' BY <1>1, PrekeysRest, PostsRest DEF Acknowledging
<1>7. ReferencesHold'
  <2>1. conn[c].user \in accounts BY <1>3 DEF ReferencesHold, Refers, At
  <2>2. NothingOfDeletedAccounts'
    BY <1>1, <2>1 DEF ReferencesHold, NothingOfDeletedAccounts, postVars
  <2>3. \A v \in Account : Deleting(v)' => Deleting(v) BY <1>2 DEF Deleting, At
  <2>4. \A d \in Connection, v \in Account : Refers(d, v)' => Refers(d, v)
    BY <1>2 DEF Refers, At
  <2> QED BY <1>1, <2>2, <2>3, <2>4 DEF ReferencesHold
<1> QED BY <1>4, <1>5, <1>6, <1>7

\* The ids of an upload are new.
LEMMA AddPrekeysKeeps ==
    ASSUME StorageInvariant, NEW c \in Connection, NEW u \in Account,
           NEW n \in 0..MaxUpload, add_one_time_prekeys(c, u, n)
    PROVE  StorageInvariant'
<1> DEFINE ids == prekeySeq + 1 .. prekeySeq + n
           t == [stage |-> "uploaded", user |-> u, ids |-> ids]
<1> USE DEF StorageInvariant
<1>1. /\ Open(c, t) /\ prekeySeq' = prekeySeq + n /\ prekeySeq + n <= MaxPrekey
      /\ UNCHANGED <<accounts, messages, messageSeq, ended, bundles, prekeys, handedOut, postVars>>
  BY DEF add_one_time_prekeys, messageVars
<1>2. conn'[c] = t /\ \A d \in Connection \ {c} : conn'[d] = conn[d]
  BY <1>1, OneConnection
<1>3. prekeySeq \in Nat /\ n \in Nat /\ prekeySeq' \in 0..MaxPrekey
      /\ ids \in SUBSET PrekeyId
  BY <1>1, StorageBoundsAssumption DEF StorageTypes, PrekeyId
<1>4. t \in Transaction BY <1>3, StageTypes
<1>5. StorageTypes' BY <1>1, <1>3, <1>4 DEF StorageTypes, Open, postVars
<1>6. MessagesOnce' /\ PostsOnce' BY <1>1, MessagesRest, PostsRest
     DEF messageVars, Acknowledging
<1>7. PrekeysOnce'
  <2>1. \A p \in prekeys : p.id \in PrekeyId BY DEF StorageTypes, Prekey
  <2>2. \A i \in PrekeyId : i \in Nat BY DEF PrekeyId
  <2>3. \A i \in ids : i \in PrekeyId /\ i > prekeySeq /\ i <= prekeySeq' /\ handedOut[i] = 0
    BY <1>1, <1>3 DEF PrekeysOnce
  <2>4. \A p \in prekeys' : p.id <= prekeySeq' /\ handedOut'[p.id] = 0
    BY <1>1, <1>3, <2>1, <2>2 DEF PrekeysOnce
  <2>5. \A p, q \in prekeys' : p.id = q.id => p = q BY <1>1 DEF PrekeysOnce
  <2>6. \A i \in PrekeyId : i > prekeySeq' => handedOut'[i] = 0
    BY <1>1, <1>3, <2>2 DEF PrekeysOnce
  <2>7. ASSUME NEW d \in Connection, At(d, "uploaded")', NEW i \in conn'[d].ids
        PROVE  /\ i <= prekeySeq'
               /\ handedOut'[i] = 0
               /\ \A p \in prekeys' : p.id # i
               /\ \A e \in Connection \ {d} : At(e, "uploaded")' => i \notin conn'[e].ids
    <3>1. CASE d = c
      <4> HIDE DEF ids
      <4>1. t.ids = ids OBVIOUS
      <4>2. conn'[d].ids = ids BY <1>2, <3>1, <4>1
      <4>3. i \in ids BY <2>7, <4>2
      <4>4. \A p \in prekeys : p.id # i
        BY <1>3, <2>1, <2>2, <2>3, <4>3 DEF PrekeysOnce
      <4>5. ASSUME NEW e \in Connection \ {d}, At(e, "uploaded")', i \in conn'[e].ids
            PROVE  FALSE
        <5>1. At(e, "uploaded") /\ i \in conn[e].ids BY <1>2, <3>1, <4>5 DEF At
        <5>2. i <= prekeySeq BY <5>1 DEF PrekeysOnce
        <5> QED BY <1>3, <2>2, <2>3, <4>3, <5>2
      <4> QED BY <1>1, <2>3, <4>3, <4>4, <4>5
    <3>2. CASE d # c
      <4>1. At(d, "uploaded") /\ conn'[d] = conn[d] /\ i \in conn[d].ids
        BY <1>2, <2>7, <3>2 DEF At
      <4>2. i \in PrekeyId /\ i <= prekeySeq BY <4>1, Stages DEF PrekeysOnce
      <4>3. i \notin ids BY <1>3, <2>2, <2>3, <4>2
      <4> QED BY <1>1, <1>2, <1>3, <2>2, <4>1, <4>2, <4>3 DEF PrekeysOnce, At
    <3> QED BY <3>1, <3>2
  <2>8. \A d \in Connection : At(d, "popped")' =>
          /\ conn'[d].row \in prekeys'
          /\ \A e \in Connection \ {d} : At(e, "popped")' => conn'[e].row # conn'[d].row
    BY <1>1, <1>2 DEF PrekeysOnce, At
  <2>9. \A i \in PrekeyId : handedOut'[i] <= 1 BY <1>1 DEF PrekeysOnce
  <2> QED BY <2>4, <2>5, <2>6, <2>7, <2>8, <2>9 DEF PrekeysOnce
<1>8. ReferencesHold'
  <2>1. NothingOfDeletedAccounts' BY <1>1 DEF ReferencesHold, NothingOfDeletedAccounts, postVars
  <2>2. \A v \in Account : Deleting(v)' => Deleting(v) BY <1>2 DEF Deleting, At
  <2>3. \A d \in Connection, v \in Account : Refers(d, v)' => Refers(d, v) \/ v = u
    BY <1>2 DEF Refers, At
  <2>4. u \in accounts /\ ~Deleting(u) BY DEF add_one_time_prekeys, Referable
  <2> QED BY <1>1, <2>1, <2>2, <2>3, <2>4 DEF ReferencesHold
<1> QED BY <1>5, <1>6, <1>7, <1>8

\* What was uploaded is in store, and has not been handed out.
LEMMA CommitPrekeysKeeps ==
    ASSUME StorageInvariant, NEW c \in Connection, commit_prekeys(c)
    PROVE  StorageInvariant'
<1> DEFINE new == [id : conn[c].ids, user : {conn[c].user}]
<1> USE DEF StorageInvariant
<1>1. /\ Open(c, Idle) /\ prekeys' = prekeys \cup new
      /\ UNCHANGED <<accounts, messages, messageSeq, ended, bundles, prekeySeq, handedOut, postVars>>
  BY DEF commit_prekeys, Close, Open, messageVars
<1>2. /\ conn'[c] = Idle /\ \A d \in Connection \ {c} : conn'[d] = conn[d]
      /\ Idle.stage = "idle"
  BY <1>1, OneConnection, StageTypes
<1>3. /\ At(c, "uploaded") /\ conn[c].user \in Account /\ conn[c].ids \subseteq PrekeyId
  BY Stages DEF commit_prekeys, At
<1>4. new \subseteq Prekey BY <1>3 DEF Prekey
<1>5. StorageTypes' BY <1>1, <1>4, StageTypes DEF StorageTypes, Open, postVars
<1>6. MessagesOnce' /\ PostsOnce' BY <1>1, StageTypes, MessagesRest, PostsRest
     DEF messageVars, Acknowledging
<1>7. PrekeysOnce'
  <2>1. \A p \in new : p.id \in conn[c].ids /\ p.id <= prekeySeq /\ handedOut[p.id] = 0
                       /\ \A q \in prekeys : q.id # p.id
    BY <1>3 DEF PrekeysOnce
  <2>2. \A p, q \in new : p.id = q.id => p = q OBVIOUS
  <2>3. \A p \in prekeys' : p.id <= prekeySeq' /\ handedOut'[p.id] = 0
    BY <1>1, <2>1 DEF PrekeysOnce
  <2>4. \A p, q \in prekeys' : p.id = q.id => p = q
    BY <1>1, <2>1, <2>2 DEF PrekeysOnce
  <2>5. \A i \in PrekeyId : i > prekeySeq' => handedOut'[i] = 0
    BY <1>1 DEF PrekeysOnce
  <2>6. ASSUME NEW d \in Connection, At(d, "uploaded")', NEW i \in conn'[d].ids
        PROVE  /\ i <= prekeySeq'
               /\ handedOut'[i] = 0
               /\ \A p \in prekeys' : p.id # i
               /\ \A e \in Connection \ {d} : At(e, "uploaded")' => i \notin conn'[e].ids
    <3>1. d # c /\ At(d, "uploaded") /\ conn'[d] = conn[d] /\ i \in conn[d].ids
      BY <1>2, <2>6 DEF At
    <3>2. \A p \in new : p.id # i BY <1>3, <2>1, <3>1 DEF PrekeysOnce
    <3>3. \A e \in Connection \ {d} : At(e, "uploaded")' => i \notin conn'[e].ids
      BY <1>2, <3>1 DEF PrekeysOnce, At
    <3> QED BY <1>1, <3>1, <3>2, <3>3 DEF PrekeysOnce
  <2>7. \A d \in Connection : At(d, "popped")' =>
          /\ conn'[d].row \in prekeys'
          /\ \A e \in Connection \ {d} : At(e, "popped")' => conn'[e].row # conn'[d].row
    BY <1>1, <1>2 DEF PrekeysOnce, At
  <2>8. \A i \in PrekeyId : handedOut'[i] <= 1 BY <1>1 DEF PrekeysOnce
  <2> QED BY <2>3, <2>4, <2>5, <2>6, <2>7, <2>8 DEF PrekeysOnce
<1>8. ReferencesHold'
  <2>1. conn[c].user \in accounts BY <1>3 DEF ReferencesHold, Refers, At
  <2>2. NothingOfDeletedAccounts'
    BY <1>1, <2>1 DEF ReferencesHold, NothingOfDeletedAccounts, postVars
  <2>3. \A v \in Account : Deleting(v)' => Deleting(v) BY <1>2 DEF Deleting, At
  <2>4. \A d \in Connection, v \in Account : Refers(d, v)' => Refers(d, v)
    BY <1>2 DEF Refers, At
  <2> QED BY <1>1, <2>2, <2>3, <2>4 DEF ReferencesHold
<1> QED BY <1>5, <1>6, <1>7, <1>8

\* The subselect locks nothing.
LEMMA ChoosePrekeyKeeps ==
    ASSUME StorageInvariant, NEW c \in Connection, NEW u \in Account,
           choose_prekey(c, u)
    PROVE  StorageInvariant'
<1> USE DEF StorageInvariant
<1>1. PICK p \in FirstPrekeys(u) : Open(c, [stage |-> "chosen", row |-> p])
  BY DEF choose_prekey
<1>2. UNCHANGED <<accounts, messages, messageSeq, ended, bundles, prekeys,
                  prekeySeq, handedOut, postVars>>
  BY DEF choose_prekey, messageVars, keyVars
<1>3. p \in Prekey BY DEF FirstPrekeys, StorageTypes
<1>4. StorageTypes' BY <1>1, <1>2, <1>3, StageTypes DEF StorageTypes, Open, postVars
<1>5. MessagesOnce' BY <1>1, <1>2, MessagesRest DEF messageVars
<1>6. PrekeysOnce' /\ PostsOnce' BY <1>1, <1>2, PrekeysRest, PostsRest DEF Acknowledging
<1>7. ReferencesHold' BY <1>1, <1>2, ReferencesRest DEF postVars
<1> QED BY <1>4, <1>5, <1>6, <1>7

\* The DELETE takes a row that is there and that nobody else is deleting.
LEMMA PopPrekeyKeeps ==
    ASSUME StorageInvariant, NEW c \in Connection, pop_one_time_prekey(c)
    PROVE  StorageInvariant'
<1> DEFINE t == [stage |-> "popped", row |-> conn[c].row]
<1> USE DEF StorageInvariant
<1>1. UNCHANGED <<accounts, messages, messageSeq, ended, bundles, prekeys,
                  prekeySeq, handedOut, postVars>>
  BY DEF pop_one_time_prekey, messageVars, keyVars
<1>2. At(c, "chosen") /\ conn[c].row \in Prekey
  BY Stages DEF pop_one_time_prekey, At
<1>3. CASE Open(c, Idle)
  <2>1. StorageTypes' BY <1>1, <1>3, StageTypes DEF StorageTypes, Open, postVars
  <2>2. MessagesOnce' BY <1>1, <1>3, StageTypes, MessagesRest DEF messageVars
  <2>3. PrekeysOnce' /\ PostsOnce' BY <1>1, <1>3, StageTypes, PrekeysRest, PostsRest DEF Acknowledging
  <2>4. ReferencesHold' BY <1>1, <1>3, StageTypes, ReferencesRest DEF postVars
  <2> QED BY <2>1, <2>2, <2>3, <2>4
<1>4. CASE conn[c].row \in prekeys /\ Open(c, t)
  <2>1. conn'[c] = t /\ \A d \in Connection \ {c} : conn'[d] = conn[d]
    BY <1>4, OneConnection
  <2>2. StorageTypes' BY <1>1, <1>2, <1>4, StageTypes DEF StorageTypes, Open, postVars
  <2>3. MessagesOnce' BY <1>1, <1>4, MessagesRest DEF messageVars
  <2>4. \A d \in Connection : At(d, "popped") => conn[d].row # conn[c].row
    BY DEF pop_one_time_prekey, Locked, Deletes, At
  <2>5. PrekeysOnce' BY <1>1, <1>4, <2>1, <2>4 DEF PrekeysOnce, At
  <2>6. PostsOnce' BY <1>1, <1>4, PostsRest DEF Acknowledging
  <2>7. ReferencesHold' BY <1>1, <1>4, ReferencesRest DEF postVars
  <2> QED BY <2>2, <2>3, <2>5, <2>6, <2>7
<1>5. [conn[c] EXCEPT !.stage = "popped"] = t
  <2>1. conn[c] \in Transaction BY DEF StorageTypes
  <2> QED BY <1>2, <2>1 DEF Transaction, Idle, At
<1> QED BY <1>3, <1>4, <1>5 DEF pop_one_time_prekey, Close, Open

\* The prekey goes out, and its id is not in store again.
LEMMA CommitPopKeeps ==
    ASSUME StorageInvariant, NEW c \in Connection, commit_pop(c)
    PROVE  StorageInvariant'
<1> USE DEF StorageInvariant
<1>1. /\ Open(c, Idle) /\ prekeys' = prekeys \ {conn[c].row}
      /\ handedOut' = [handedOut EXCEPT ![conn[c].row.id] = @ + 1]
      /\ UNCHANGED <<accounts, messages, messageSeq, ended, bundles, prekeySeq, postVars>>
  BY DEF commit_pop, Close, Open, messageVars
<1>2. /\ conn'[c] = Idle /\ \A d \in Connection \ {c} : conn'[d] = conn[d]
      /\ Idle.stage = "idle"
  BY <1>1, OneConnection, StageTypes
<1>3. /\ At(c, "popped") /\ conn[c].row \in Prekey /\ conn[c].row.id \in PrekeyId
  BY Stages DEF commit_pop, At, Prekey
<1>4. StorageTypes' BY <1>1, <1>3, StageTypes DEF StorageTypes, Open, postVars
<1>5. MessagesOnce' /\ PostsOnce' BY <1>1, StageTypes, MessagesRest, PostsRest
     DEF messageVars, Acknowledging
<1>6. PrekeysOnce'
  <2>1. conn[c].row \in prekeys /\ handedOut[conn[c].row.id] = 0
        /\ conn[c].row.id <= prekeySeq
    BY <1>3 DEF PrekeysOnce
  <2>2. handedOut'[conn[c].row.id] = 1
        /\ \A i \in PrekeyId \ {conn[c].row.id} : handedOut'[i] = handedOut[i]
    BY <1>1, <1>3, <2>1 DEF StorageTypes
  <2>3. \A p \in prekeys' : p \in prekeys /\ p.id # conn[c].row.id
                            /\ p.id \in PrekeyId
    BY <1>1, <2>1 DEF PrekeysOnce, StorageTypes, Prekey
  <2>4. \A p \in prekeys' : p.id <= prekeySeq' /\ handedOut'[p.id] = 0
    BY <1>1, <2>2, <2>3 DEF PrekeysOnce
  <2>5. \A p, q \in prekeys' : p.id = q.id => p = q BY <2>3 DEF PrekeysOnce
  <2>6. \A i \in PrekeyId : i > prekeySeq' => handedOut'[i] = 0
    <3>1. \A i \in PrekeyId : i > prekeySeq => i # conn[c].row.id
      BY <1>3, <2>1 DEF PrekeyId, StorageTypes
    <3> QED BY <1>1, <2>2, <3>1 DEF PrekeysOnce
  <2>7. ASSUME NEW d \in Connection, At(d, "uploaded")', NEW i \in conn'[d].ids
        PROVE  /\ i <= prekeySeq'
               /\ handedOut'[i] = 0
               /\ \A p \in prekeys' : p.id # i
               /\ \A e \in Connection \ {d} : At(e, "uploaded")' => i \notin conn'[e].ids
    <3>1. d # c /\ At(d, "uploaded") /\ conn'[d] = conn[d] /\ i \in conn[d].ids
      BY <1>2, <2>7 DEF At
    <3>2. i \in PrekeyId BY <3>1, Stages
    <3>3. i # conn[c].row.id BY <2>1, <3>1 DEF PrekeysOnce
    <3>4. \A e \in Connection \ {d} : At(e, "uploaded")' => i \notin conn'[e].ids
      BY <1>2, <3>1 DEF PrekeysOnce, At
    <3> QED BY <1>1, <2>2, <2>3, <3>1, <3>2, <3>3, <3>4 DEF PrekeysOnce
  <2>8. ASSUME NEW d \in Connection, At(d, "popped")'
        PROVE  /\ conn'[d].row \in prekeys'
               /\ \A e \in Connection \ {d} :
                    At(e, "popped")' => conn'[e].row # conn'[d].row
    <3>1. d # c /\ At(d, "popped") /\ conn'[d] = conn[d] BY <1>2, <2>8 DEF At
    <3> QED BY <1>1, <1>2, <1>3, <3>1 DEF PrekeysOnce, At
  <2>9. \A i \in PrekeyId : handedOut'[i] <= 1 BY <1>3, <2>2 DEF PrekeysOnce
  <2> QED BY <2>4, <2>5, <2>6, <2>7, <2>8, <2>9 DEF PrekeysOnce
<1>7. ReferencesHold' BY <1>1, StageTypes, ReferencesRest DEF postVars
<1> QED BY <1>4, <1>5, <1>6, <1>7
-----------------------------------------------------------------------------
(* Messages to the group. *)

\* A connection that is at a group message leaves the rest alone.
LEMMA GroupMessageLeaves ==
    ASSUME StorageInvariant, NEW c \in Connection, NEW t, Open(c, t),
           t.stage \in {"idle", "posted", "addressed", "withdrawn"} \cup Acknowledging,
           UNCHANGED <<messages, messageSeq, ended, prekeys, prekeySeq, handedOut>>
    PROVE  MessagesOnce' /\ PrekeysOnce'
<1>1. t.stage \notin {"inserted", "ended", "uploaded", "popped"} BY DEF Acknowledging
<1> QED BY <1>1, MessagesRest, PrekeysRest DEF StorageInvariant, messageVars

\* A new id is used by nobody, and the sender is held.
LEMMA StoreGroupMessageKeeps ==
    ASSUME StorageInvariant, NEW c \in Connection, NEW s \in Account,
           store_group_message(c, s)
    PROVE  StorageInvariant'
<1> DEFINE new == [id |-> postSeq + 1, sender |-> s]
           t == [stage |-> "posted", row |-> new]
<1> USE DEF StorageInvariant
<1>1. /\ Open(c, t) /\ postSeq' = postSeq + 1 /\ postSeq' \in 1..MaxPost
      /\ UNCHANGED <<accounts, messages, messageSeq, ended, bundles, prekeys, prekeySeq,
                     handedOut, posts, receipts, overlapped>>
  BY StorageBoundsAssumption DEF store_group_message, messageVars, keyVars, StorageTypes
<1>2. new \in Post /\ t \in Transaction BY <1>1, StageTypes DEF Post, PostId
<1>3. conn'[c] = t /\ \A d \in Connection \ {c} : conn'[d] = conn[d]
  BY <1>1, OneConnection
<1>4. StorageTypes' BY <1>1, <1>2, StorageBoundsAssumption DEF StorageTypes, Open
<1>5. MessagesOnce' /\ PrekeysOnce' BY <1>1, GroupMessageLeaves
<1>6. PostsOnce'
  <2>1. /\ postSeq \in Nat /\ \A m \in posts : m.id \in Nat
        /\ \A r \in receipts : r.post \in Nat
    BY StorageBoundsAssumption DEF StorageTypes, Post, Receipt, PostId
  <2>2. \A d \in Connection : conn[d].stage \in {"posted", "addressed"} =>
          conn[d].row.id \in Nat
    BY Stages DEF Post, PostId
  <2>3. conn'[c].stage = "posted" /\ conn'[c].row.id = postSeq + 1 BY <1>3
  <2>4. \A m \in posts' : m.id <= postSeq' BY <1>1, <2>1 DEF PostsOnce
  <2>5. \A r \in receipts' : r.post <= postSeq' BY <1>1, <2>1 DEF PostsOnce
  <2>6. ASSUME NEW d \in Connection, conn'[d].stage \in {"posted", "addressed"}
        PROVE  /\ conn'[d].row.id <= postSeq'
               /\ \A r \in receipts' : r.post # conn'[d].row.id
               /\ \A e \in Connection \ {d} : conn'[e].stage \in {"posted", "addressed"}
                    => conn'[e].row.id # conn'[d].row.id
    BY <1>1, <1>3, <2>1, <2>2, <2>3, <2>6 DEF PostsOnce
  <2>7. \A d \in Connection : conn'[d].stage \in Acknowledging \cup {"withdrawn"}
          => d # c /\ conn'[d] = conn[d]
    BY <1>3, <2>3 DEF Acknowledging
  <2> QED BY <1>1, <2>4, <2>5, <2>6, <2>7 DEF PostsOnce, At, Acknowledging
<1>7. ReferencesHold'
  <2>1. NothingOfDeletedAccounts' BY <1>1 DEF ReferencesHold, NothingOfDeletedAccounts
  <2>2. \A u \in Account : Deleting(u)' => Deleting(u) BY <1>3 DEF Deleting, At
  <2>3. \A d \in Connection, u \in Account : Refers(d, u)' => Refers(d, u) \/ u = s
    BY <1>3 DEF Refers, At
  <2>4. s \in accounts /\ ~Deleting(s) BY DEF store_group_message, Referable
  <2> QED BY <1>1, <2>1, <2>2, <2>3, <2>4 DEF ReferencesHold
<1> QED BY <1>4, <1>5, <1>6, <1>7

\* The other members are held as well.
LEMMA StoreReceiptsKeeps ==
    ASSUME StorageInvariant, NEW c \in Connection, store_receipts(c)
    PROVE  StorageInvariant'
<1> DEFINE to == accounts \ {conn[c].row.sender}
           t == [stage |-> "addressed", row |-> conn[c].row, to |-> to]
<1> USE DEF StorageInvariant
<1>1. /\ Open(c, t) /\ At(c, "posted") /\ \A u \in to : ~Deleting(u)
      /\ UNCHANGED <<accounts, messages, messageSeq, ended, bundles, prekeys, prekeySeq,
                     handedOut, posts, postSeq, receipts, overlapped>>
  BY DEF store_receipts, messageVars, keyVars, postVars
<1>2. conn[c].row \in Post /\ to \in SUBSET Account
  BY <1>1, Stages DEF StorageTypes, At
<1>3. conn'[c] = t /\ \A d \in Connection \ {c} : conn'[d] = conn[d]
  BY <1>1, OneConnection
<1>4. StorageTypes'
  <2>1. t \in Transaction BY <1>2, StageTypes
  <2> QED BY <1>1, <2>1 DEF StorageTypes, Open
<1>5. MessagesOnce' /\ PrekeysOnce' BY <1>1, GroupMessageLeaves
<1>6. PostsOnce'
  <2>1. \A d \in Connection : conn'[d].stage \in {"posted", "addressed"} =>
          conn[d].stage \in {"posted", "addressed"} /\ conn'[d].row = conn[d].row
    BY <1>1, <1>3 DEF At
  <2>2. \A d \in Connection : conn'[d].stage \in Acknowledging \cup {"withdrawn"}
          => d # c /\ conn'[d] = conn[d]
    BY <1>3 DEF Acknowledging
  <2>3. ASSUME NEW d \in Connection, conn'[d].stage \in {"posted", "addressed"}
        PROVE  /\ conn'[d].row.id <= postSeq'
               /\ \A r \in receipts' : r.post # conn'[d].row.id
               /\ \A e \in Connection \ {d} : conn'[e].stage \in {"posted", "addressed"}
                    => conn'[e].row.id # conn'[d].row.id
    BY <1>1, <2>1, <2>3 DEF PostsOnce
  <2>4. \A m \in posts' : m.id <= postSeq' BY <1>1 DEF PostsOnce
  <2>5. \A r \in receipts' : r.post <= postSeq' BY <1>1 DEF PostsOnce
  <2> QED BY <1>1, <2>2, <2>3, <2>4, <2>5 DEF PostsOnce, At, Acknowledging
<1>7. ReferencesHold'
  <2>1. NothingOfDeletedAccounts' BY <1>1 DEF ReferencesHold, NothingOfDeletedAccounts
  <2>2. \A u \in Account : Deleting(u)' => Deleting(u) BY <1>3 DEF Deleting, At
  <2>3. \A d \in Connection, u \in Account : Refers(d, u)' => Refers(d, u) \/ u \in to
    BY <1>1, <1>3 DEF Refers, At
  <2>4. \A u \in to : u \in accounts /\ ~Deleting(u) BY <1>1
  <2> QED BY <1>1, <2>1, <2>2, <2>3, <2>4 DEF ReferencesHold
<1> QED BY <1>4, <1>5, <1>6, <1>7

\* What was on its way is in the tables.
LEMMA CommitGroupMessageKeeps ==
    ASSUME StorageInvariant, NEW c \in Connection, commit_group_message(c)
    PROVE  StorageInvariant'
<1> DEFINE m == conn[c].row
           to == conn[c].to
           fresh == [post : {m.id}, user : to]
<1> USE DEF StorageInvariant
<1>1. /\ Open(c, Idle) /\ At(c, "addressed")
      /\ posts' = posts \cup {m} /\ receipts' = receipts \cup fresh
      /\ UNCHANGED <<accounts, messages, messageSeq, ended, bundles, prekeys, prekeySeq,
                     handedOut, postSeq, overlapped>>
  BY DEF commit_group_message, Close, Open, messageVars, keyVars
<1>2. /\ conn'[c] = Idle /\ \A d \in Connection \ {c} : conn'[d] = conn[d]
      /\ Idle.stage = "idle"
  BY <1>1, OneConnection, StageTypes
<1>3. m \in Post /\ to \subseteq Account BY <1>1, Stages DEF At
<1>4. /\ m.id \in PostId /\ m.sender \in Account
      /\ \A r \in fresh : r.post = m.id /\ r.user \in to
      /\ fresh \subseteq Receipt
  BY <1>3 DEF Post, Receipt
<1> HIDE DEF m, to, fresh
<1>5. StorageTypes' BY <1>1, <1>3, <1>4, StageTypes DEF StorageTypes, Open
<1>6. MessagesOnce' /\ PrekeysOnce' BY <1>1, StageTypes, GroupMessageLeaves
<1>7. PostsOnce'
  <2>1. /\ m.id <= postSeq /\ \A r \in receipts : r.post # m.id
        /\ \A d \in Connection \ {c} :
             conn[d].stage \in {"posted", "addressed"} => conn[d].row.id # m.id
    BY <1>1 DEF PostsOnce, At, m
  <2>2. ASSUME NEW d \in Connection, conn'[d].stage # "idle"
        PROVE  d # c /\ conn'[d] = conn[d]
    BY <1>2, <2>2
  <2>3. \A x \in posts' : x.id <= postSeq' BY <1>1, <2>1 DEF PostsOnce
  <2>4. \A r \in receipts' : r.post <= postSeq' BY <1>1, <1>4, <2>1 DEF PostsOnce
  <2>5. ASSUME NEW d \in Connection, conn'[d].stage \in {"posted", "addressed"}
        PROVE  /\ conn'[d].row.id <= postSeq'
               /\ \A r \in receipts' : r.post # conn'[d].row.id
               /\ \A e \in Connection \ {d} : conn'[e].stage \in {"posted", "addressed"}
                    => conn'[e].row.id # conn'[d].row.id
    BY <1>1, <1>4, <2>1, <2>2, <2>5 DEF PostsOnce
  <2>6. ASSUME NEW d \in Connection, At(d, "withdrawn")'
        PROVE  /\ conn'[d].row \in posts'
               /\ \A e \in Connection \ {d} :
                    At(e, "withdrawn")' => conn'[e].row # conn'[d].row
               /\ \A e \in Connection : conn'[e].stage \in Acknowledging =>
                    conn'[e].row.post # conn'[d].row.id
    BY <1>1, <2>2, <2>6 DEF PostsOnce, At, Acknowledging
  <2>7. ASSUME NEW d \in Connection, conn'[d].stage \in Acknowledging
        PROVE  /\ conn'[d].row \in receipts'
               /\ \A e \in Connection \ {d} :
                    conn'[e].stage \in Acknowledging => conn'[e].row # conn'[d].row
    BY <1>1, <2>2, <2>7 DEF PostsOnce, Acknowledging
  <2>8. ASSUME NEW d \in Connection, At(d, "last")'
        PROVE  \A r \in receipts' : r.post = conn'[d].row.post => r = conn'[d].row
    <3>1. At(d, "last") /\ conn'[d] = conn[d] BY <2>2, <2>8 DEF At
    <3>2. conn[d].row \in receipts BY <3>1 DEF PostsOnce, At, Acknowledging
    <3>3. conn[d].row.post # m.id BY <2>1, <3>2
    <3> QED BY <1>1, <1>4, <3>1, <3>3 DEF PostsOnce
  <2> QED BY <2>3, <2>4, <2>5, <2>6, <2>7, <2>8 DEF PostsOnce
<1>8. ReferencesHold'
  <2>1. m.sender \in accounts
    <3>1. Refers(c, m.sender) BY <1>1 DEF Refers, At, m
    <3> QED BY <1>4, <3>1 DEF ReferencesHold
  <2>2. \A u \in to : u \in accounts
    <3>1. \A u \in to : Refers(c, u) BY <1>1 DEF Refers, to
    <3> QED BY <1>3, <3>1 DEF ReferencesHold
  <2>3. NothingOfDeletedAccounts'
    BY <1>1, <1>4, <2>1, <2>2 DEF ReferencesHold, NothingOfDeletedAccounts
  <2>4. \A u \in Account : Deleting(u)' => Deleting(u) BY <1>2 DEF Deleting, At
  <2>5. \A d \in Connection, u \in Account : Refers(d, u)' => Refers(d, u)
    BY <1>2 DEF Refers, At
  <2> QED BY <1>1, <2>3, <2>4, <2>5 DEF ReferencesHold
<1> QED BY <1>5, <1>6, <1>7, <1>8

\* A revocation waits for those who acknowledge the message.
LEMMA RevokeGroupMessageKeeps ==
    ASSUME StorageInvariant, NEW c \in Connection, NEW m \in posts,
           revoke_group_message(c, m)
    PROVE  StorageInvariant'
<1> DEFINE t == [stage |-> "withdrawn", row |-> m]
<1> USE DEF StorageInvariant
<1>1. Open(c, t)
      /\ UNCHANGED <<accounts, messages, messageSeq, ended, bundles, prekeys, prekeySeq,
                     handedOut, posts, postSeq, receipts, overlapped>>
  BY DEF revoke_group_message, messageVars, keyVars, postVars
<1>2. conn'[c] = t /\ \A d \in Connection \ {c} : conn'[d] = conn[d]
  BY <1>1, OneConnection
<1>3. t \in Transaction BY StageTypes DEF StorageTypes
<1>4. StorageTypes' BY <1>1, <1>3 DEF StorageTypes, Open
<1>5. MessagesOnce' /\ PrekeysOnce' BY <1>1, GroupMessageLeaves
<1>6. PostsOnce'
  <2>1. \A d \in Connection : At(d, "withdrawn") => conn[d].row # m
    BY DEF revoke_group_message, Locked, Deletes, At
  <2>2. \A d \in Connection : conn[d].stage \in Acknowledging => conn[d].row.post # m.id
    <3>1. \A d \in Connection : conn[d].stage \in Acknowledging => conn[d].row \in receipts
      BY DEF PostsOnce
    <3>2. \A r \in receipts : r.post = m.id => ~Locked(r)
      BY DEF revoke_group_message, ReceiptsOf
    <3> QED BY <3>1, <3>2 DEF Locked, Deletes, Acknowledging
  <2>3. \A d \in Connection : conn'[d].stage \in Acknowledging \cup {"posted", "addressed"}
          => d # c /\ conn'[d] = conn[d]
    BY <1>2 DEF Acknowledging
  <2>4. ASSUME NEW d \in Connection, At(d, "withdrawn")'
        PROVE  /\ conn'[d].row \in posts'
               /\ \A e \in Connection \ {d} :
                    At(e, "withdrawn")' => conn'[e].row # conn'[d].row
               /\ \A e \in Connection : conn'[e].stage \in Acknowledging =>
                    conn'[e].row.post # conn'[d].row.id
    BY <1>1, <1>2, <2>1, <2>2, <2>3, <2>4 DEF PostsOnce, At
  <2> QED BY <1>1, <2>3, <2>4 DEF PostsOnce, At, Acknowledging
<1>7. ReferencesHold' BY <1>1, ReferencesRest
<1> QED BY <1>4, <1>5, <1>6, <1>7

\* The message goes with its receipts, and none of them was being deleted.
LEMMA CommitRevocationKeeps ==
    ASSUME StorageInvariant, NEW c \in Connection, commit_revocation(c)
    PROVE  StorageInvariant'
<1> DEFINE m == conn[c].row
<1> USE DEF StorageInvariant
<1>1. /\ Open(c, Idle) /\ At(c, "withdrawn")
      /\ posts' = posts \ {m} /\ receipts' = {r \in receipts : r.post # m.id}
      /\ UNCHANGED <<accounts, messages, messageSeq, ended, bundles, prekeys, prekeySeq,
                     handedOut, postSeq, overlapped>>
  BY DEF commit_revocation, Close, Open, messageVars, keyVars, ReceiptsOf
<1>2. /\ conn'[c] = Idle /\ \A d \in Connection \ {c} : conn'[d] = conn[d]
      /\ Idle.stage = "idle"
  BY <1>1, OneConnection, StageTypes
<1>3. StorageTypes' BY <1>1, StageTypes DEF StorageTypes, Open
<1>4. MessagesOnce' /\ PrekeysOnce' BY <1>1, StageTypes, GroupMessageLeaves
<1>5. /\ \A d \in Connection \ {c} : At(d, "withdrawn") => conn[d].row # m
      /\ \A d \in Connection : conn[d].stage \in Acknowledging => conn[d].row.post # m.id
  BY <1>1 DEF PostsOnce
<1> HIDE DEF m
<1>6. PostsOnce'
  <2>1. ASSUME NEW d \in Connection, conn'[d].stage # "idle"
        PROVE  d # c /\ conn'[d] = conn[d]
    BY <1>2, <2>1
  <2>2. \A x \in posts' : x.id <= postSeq' BY <1>1 DEF PostsOnce
  <2>3. \A r \in receipts' : r.post <= postSeq' BY <1>1 DEF PostsOnce
  <2>4. ASSUME NEW d \in Connection, conn'[d].stage \in {"posted", "addressed"}
        PROVE  /\ conn'[d].row.id <= postSeq'
               /\ \A r \in receipts' : r.post # conn'[d].row.id
               /\ \A e \in Connection \ {d} : conn'[e].stage \in {"posted", "addressed"}
                    => conn'[e].row.id # conn'[d].row.id
    BY <1>1, <2>1, <2>4 DEF PostsOnce
  <2>5. ASSUME NEW d \in Connection, At(d, "withdrawn")'
        PROVE  /\ conn'[d].row \in posts'
               /\ \A e \in Connection \ {d} :
                    At(e, "withdrawn")' => conn'[e].row # conn'[d].row
               /\ \A e \in Connection : conn'[e].stage \in Acknowledging =>
                    conn'[e].row.post # conn'[d].row.id
    BY <1>1, <1>5, <2>1, <2>5 DEF PostsOnce, At, Acknowledging
  <2>6. ASSUME NEW d \in Connection, conn'[d].stage \in Acknowledging
        PROVE  /\ conn'[d].row \in receipts'
               /\ \A e \in Connection \ {d} :
                    conn'[e].stage \in Acknowledging => conn'[e].row # conn'[d].row
    BY <1>1, <1>5, <2>1, <2>6 DEF PostsOnce, Acknowledging
  <2>7. ASSUME NEW d \in Connection, At(d, "last")'
        PROVE  \A r \in receipts' : r.post = conn'[d].row.post => r = conn'[d].row
    BY <1>1, <2>1, <2>7 DEF PostsOnce, At
  <2> QED BY <2>2, <2>3, <2>4, <2>5, <2>6, <2>7 DEF PostsOnce
<1>7. ReferencesHold'
  <2>1. NothingOfDeletedAccounts'
    BY <1>1 DEF ReferencesHold, NothingOfDeletedAccounts
  <2>2. \A u \in Account : Deleting(u)' => Deleting(u) BY <1>2 DEF Deleting, At
  <2>3. \A d \in Connection, u \in Account : Refers(d, u)' => Refers(d, u)
    BY <1>2 DEF Refers, At
  <2> QED BY <1>1, <2>1, <2>2, <2>3 DEF ReferencesHold
<1> QED BY <1>3, <1>4, <1>6, <1>7

\* One transaction at a time deletes a receipt, and none revokes its message.
LEMMA RecordGroupReceiptKeeps ==
    ASSUME StorageInvariant, NEW c \in Connection, NEW r \in receipts,
           record_group_receipt(c, r)
    PROVE  StorageInvariant'
<1> DEFINE t == [stage |-> "acknowledged", row |-> r]
<1> USE DEF StorageInvariant
<1>1. /\ Open(c, t) /\ ~Locked(r) /\ \A m \in posts : m.id = r.post => ~Locked(m)
      /\ overlapped' \in {overlapped, overlapped \cup {r.post}}
      /\ UNCHANGED <<accounts, messages, messageSeq, ended, bundles, prekeys, prekeySeq,
                     handedOut, posts, postSeq, receipts>>
  BY DEF record_group_receipt, messageVars, keyVars
<1>2. conn'[c] = t /\ \A d \in Connection \ {c} : conn'[d] = conn[d]
  BY <1>1, OneConnection
<1>3. r \in Receipt /\ r.post \in PostId /\ t \in Transaction
  BY StageTypes DEF StorageTypes, Receipt, Acknowledging
<1>4. StorageTypes' BY <1>1, <1>3 DEF StorageTypes, Open
<1>5. MessagesOnce' /\ PrekeysOnce' BY <1>1, GroupMessageLeaves DEF Acknowledging
<1>6. PostsOnce'
  <2>1. \A d \in Connection : conn[d].stage \in Acknowledging => conn[d].row # r
    BY <1>1 DEF Locked, Deletes, Acknowledging
  <2>2. \A d \in Connection : At(d, "withdrawn") => conn[d].row.id # r.post
    <3>1. \A d \in Connection : At(d, "withdrawn") => conn[d].row \in posts
      BY DEF PostsOnce
    <3> QED BY <1>1, <3>1 DEF Locked, Deletes, At
  <2>3. \A d \in Connection :
          conn'[d].stage \in {"posted", "addressed", "withdrawn", "last"}
            => d # c /\ conn'[d] = conn[d]
    BY <1>2
  <2>4. ASSUME NEW d \in Connection, At(d, "withdrawn")'
        PROVE  /\ conn'[d].row \in posts'
               /\ \A e \in Connection \ {d} :
                    At(e, "withdrawn")' => conn'[e].row # conn'[d].row
               /\ \A e \in Connection : conn'[e].stage \in Acknowledging =>
                    conn'[e].row.post # conn'[d].row.id
    BY <1>1, <1>2, <2>2, <2>3, <2>4 DEF PostsOnce, At
  <2>5. ASSUME NEW d \in Connection, conn'[d].stage \in Acknowledging
        PROVE  /\ conn'[d].row \in receipts'
               /\ \A e \in Connection \ {d} :
                    conn'[e].stage \in Acknowledging => conn'[e].row # conn'[d].row
    BY <1>1, <1>2, <2>1, <2>5 DEF PostsOnce, Acknowledging
  <2>6. ASSUME NEW d \in Connection, At(d, "last")'
        PROVE  \A q \in receipts' : q.post = conn'[d].row.post => q = conn'[d].row
    BY <1>1, <2>3, <2>6 DEF PostsOnce, At
  <2> QED BY <1>1, <2>3, <2>4, <2>5, <2>6 DEF PostsOnce
<1>7. ReferencesHold' BY <1>1, ReferencesRest
<1> QED BY <1>4, <1>5, <1>6, <1>7

\* NOT EXISTS holds only if the receipt is the last in the table.
LEMMA DeleteAcknowledgedKeeps ==
    ASSUME StorageInvariant, NEW c \in Connection, delete_acknowledged(c)
    PROVE  StorageInvariant'
<1> DEFINE r == conn[c].row
<1> USE DEF StorageInvariant
<1>1. PICK st \in {"kept", "last"} :
        /\ Open(c, [stage |-> st, row |-> r])
        /\ st = "last" => OthersOutstanding(r) = {}
  BY DEF delete_acknowledged
<1> DEFINE t == [stage |-> st, row |-> r]
<1>2. At(c, "acknowledged")
      /\ UNCHANGED <<accounts, messages, messageSeq, ended, bundles, prekeys, prekeySeq,
                     handedOut, posts, postSeq, receipts, overlapped>>
  BY DEF delete_acknowledged, messageVars, keyVars, postVars
<1>3. conn'[c] = t /\ \A d \in Connection \ {c} : conn'[d] = conn[d]
  BY <1>1, OneConnection
<1>4. StorageTypes'
  <2>1. r \in Receipt BY <1>2, Stages DEF At, Acknowledging
  <2>2. t \in Transaction BY <2>1, StageTypes DEF Acknowledging
  <2> QED BY <1>1, <1>2, <2>2 DEF StorageTypes, Open
<1>5. MessagesOnce' /\ PrekeysOnce' BY <1>1, <1>2, GroupMessageLeaves DEF Acknowledging
<1>6. PostsOnce'
  <2>1. \A d \in Connection : conn'[d].stage \in Acknowledging =>
          conn[d].stage \in Acknowledging /\ conn'[d].row = conn[d].row
    BY <1>2, <1>3 DEF At, Acknowledging
  <2>2. \A d \in Connection : conn'[d].stage \in {"posted", "addressed", "withdrawn"}
          => d # c /\ conn'[d] = conn[d]
    BY <1>3
  <2>3. ASSUME NEW d \in Connection, At(d, "withdrawn")'
        PROVE  /\ conn'[d].row \in posts'
               /\ \A e \in Connection \ {d} :
                    At(e, "withdrawn")' => conn'[e].row # conn'[d].row
               /\ \A e \in Connection : conn'[e].stage \in Acknowledging =>
                    conn'[e].row.post # conn'[d].row.id
    BY <1>2, <2>1, <2>2, <2>3 DEF PostsOnce, At
  <2>4. ASSUME NEW d \in Connection, conn'[d].stage \in Acknowledging
        PROVE  /\ conn'[d].row \in receipts'
               /\ \A e \in Connection \ {d} :
                    conn'[e].stage \in Acknowledging => conn'[e].row # conn'[d].row
    BY <1>2, <2>1, <2>4 DEF PostsOnce
  <2>5. ASSUME NEW d \in Connection, At(d, "last")'
        PROVE  \A q \in receipts' : q.post = conn'[d].row.post => q = conn'[d].row
    <3>1. CASE d = c
      <4>1. conn'[d] = t /\ st = "last" BY <1>3, <2>5, <3>1 DEF At
      <4>2. \A q \in receipts : q.post = r.post => q = r
        BY <1>1, <4>1 DEF OthersOutstanding
      <4> QED BY <1>2, <4>1, <4>2
    <3>2. CASE d # c
      <4>1. conn'[d] = conn[d] /\ At(d, "last") BY <1>3, <2>5, <3>2 DEF At
      <4> QED BY <1>2, <4>1 DEF PostsOnce
    <3> QED BY <3>1, <3>2
  <2> QED BY <1>2, <2>2, <2>3, <2>4, <2>5 DEF PostsOnce
<1>7. ReferencesHold' BY <1>1, <1>2, ReferencesRest
<1> QED BY <1>4, <1>5, <1>6, <1>7

\* A message that goes has no receipt that another is deleting.
LEMMA CommitReceiptKeeps ==
    ASSUME StorageInvariant, NEW c \in Connection, commit_receipt(c)
    PROVE  StorageInvariant'
<1> DEFINE r == conn[c].row
           gone == {m \in posts : At(c, "last") /\ m.id = r.post}
<1> USE DEF StorageInvariant
<1>1. /\ Open(c, Idle) /\ conn[c].stage \in {"kept", "last"}
      /\ posts' = posts \ gone
      /\ receipts' = {q \in receipts \ {r} : \A m \in gone : m.id # q.post}
      /\ UNCHANGED <<accounts, messages, messageSeq, ended, bundles, prekeys, prekeySeq,
                     handedOut, postSeq, overlapped>>
  BY DEF commit_receipt, Close, Open, messageVars, keyVars, At
<1>2. /\ conn'[c] = Idle /\ \A d \in Connection \ {c} : conn'[d] = conn[d]
      /\ Idle.stage = "idle"
  BY <1>1, OneConnection, StageTypes
<1>3. StorageTypes' BY <1>1, StageTypes DEF StorageTypes, Open
<1>4. MessagesOnce' /\ PrekeysOnce' BY <1>1, StageTypes, GroupMessageLeaves
<1>5. ASSUME NEW d \in Connection \ {c}, conn[d].stage \in Acknowledging
      PROVE  conn[d].row \in receipts'
  <2>1. conn[d].row \in receipts /\ conn[d].row # r
    BY <1>1, <1>5 DEF PostsOnce, Acknowledging
  <2>2. \A m \in gone : m.id # conn[d].row.post
    BY <2>1 DEF PostsOnce
  <2> QED BY <1>1, <2>1, <2>2
<1>6. \A d \in Connection : At(d, "withdrawn") => conn[d].row \notin gone
  BY <1>1 DEF PostsOnce, Acknowledging
<1>7. \A q \in receipts' : q \in receipts /\ \A m \in gone : m.id # q.post
  BY <1>1
<1> HIDE DEF r, gone
<1>8. PostsOnce'
  <2>1. ASSUME NEW d \in Connection, conn'[d].stage # "idle"
        PROVE  d # c /\ conn'[d] = conn[d]
    BY <1>2, <2>1
  <2>2. \A x \in posts' : x.id <= postSeq' BY <1>1 DEF PostsOnce
  <2>3. \A q \in receipts' : q.post <= postSeq' BY <1>1, <1>7 DEF PostsOnce
  <2>4. ASSUME NEW d \in Connection, conn'[d].stage \in {"posted", "addressed"}
        PROVE  /\ conn'[d].row.id <= postSeq'
               /\ \A q \in receipts' : q.post # conn'[d].row.id
               /\ \A e \in Connection \ {d} : conn'[e].stage \in {"posted", "addressed"}
                    => conn'[e].row.id # conn'[d].row.id
    BY <1>1, <1>7, <2>1, <2>4 DEF PostsOnce
  <2>5. ASSUME NEW d \in Connection, At(d, "withdrawn")'
        PROVE  /\ conn'[d].row \in posts'
               /\ \A e \in Connection \ {d} :
                    At(e, "withdrawn")' => conn'[e].row # conn'[d].row
               /\ \A e \in Connection : conn'[e].stage \in Acknowledging =>
                    conn'[e].row.post # conn'[d].row.id
    BY <1>1, <1>6, <2>1, <2>5 DEF PostsOnce, At, Acknowledging
  <2>6. ASSUME NEW d \in Connection, conn'[d].stage \in Acknowledging
        PROVE  /\ conn'[d].row \in receipts'
               /\ \A e \in Connection \ {d} :
                    conn'[e].stage \in Acknowledging => conn'[e].row # conn'[d].row
    BY <1>5, <2>1, <2>6 DEF PostsOnce, Acknowledging
  <2>7. ASSUME NEW d \in Connection, At(d, "last")'
        PROVE  \A q \in receipts' : q.post = conn'[d].row.post => q = conn'[d].row
    BY <1>7, <2>1, <2>7 DEF PostsOnce, At
  <2> QED BY <2>2, <2>3, <2>4, <2>5, <2>6, <2>7 DEF PostsOnce
<1>9. ReferencesHold'
  <2>1. NothingOfDeletedAccounts'
    BY <1>1, <1>7 DEF ReferencesHold, NothingOfDeletedAccounts
  <2>2. \A u \in Account : Deleting(u)' => Deleting(u) BY <1>2 DEF Deleting, At
  <2>3. \A d \in Connection, u \in Account : Refers(d, u)' => Refers(d, u)
    BY <1>2 DEF Refers, At
  <2> QED BY <1>1, <2>1, <2>2, <2>3 DEF ReferencesHold
<1> QED BY <1>3, <1>4, <1>8, <1>9
-----------------------------------------------------------------------------
(* Accounts and failure. *)

\* Nothing that is open refers to the account, and nothing will.
LEMMA DeleteUserKeeps ==
    ASSUME StorageInvariant, NEW c \in Connection, NEW u \in Account, delete_user(c, u)
    PROVE  StorageInvariant'
<1> DEFINE t == [stage |-> "deleting", user |-> u]
<1> USE DEF StorageInvariant
<1>1. Open(c, t)
      /\ UNCHANGED <<accounts, messages, messageSeq, ended, bundles, prekeys,
                     prekeySeq, handedOut, postVars>>
  BY DEF delete_user, messageVars, keyVars
<1>2. conn'[c] = t /\ \A d \in Connection \ {c} : conn'[d] = conn[d]
  BY <1>1, OneConnection
<1>3. StorageTypes' BY <1>1, StageTypes DEF StorageTypes, Open, postVars
<1>4. MessagesOnce' BY <1>1, MessagesRest DEF messageVars
<1>5. PrekeysOnce' /\ PostsOnce' BY <1>1, PrekeysRest, PostsRest DEF Acknowledging
<1>6. ReferencesHold'
  <2>1. NothingOfDeletedAccounts' BY <1>1 DEF ReferencesHold, NothingOfDeletedAccounts, postVars
  <2>2. \A v \in Account : Deleting(v)' => Deleting(v) \/ v = u
    BY <1>2 DEF Deleting, At
  <2>3. \A d \in Connection, v \in Account : Refers(d, v)' => Refers(d, v)
    BY <1>2 DEF Refers, At
  <2>4. \A d \in Connection : ~Refers(d, u) BY DEF delete_user
  <2> QED BY <1>1, <2>1, <2>2, <2>3, <2>4 DEF ReferencesHold
<1> QED BY <1>3, <1>4, <1>5, <1>6

\* The cascades wait for rows that others have locked, and the account had no
\* insert to wait for.
LEMMA CommitDeletionKeeps ==
    ASSUME StorageInvariant, NEW c \in Connection, commit_deletion(c)
    PROVE  StorageInvariant'
<1> DEFINE u    == conn[c].user
           mail == {m \in messages : u \in {m.sender, m.recipient}}
           keys == {p \in prekeys : p.user = u}
           sent == {m \in posts : m.sender = u}
           due  == {r \in receipts : r.user = u \/ \E m \in sent : r.post = m.id}
<1> USE DEF StorageInvariant
<1>1. /\ Open(c, Idle)
      /\ \A row \in mail \cup keys \cup sent \cup due : ~Locked(row)
      /\ accounts' = accounts \ {u} /\ bundles' = bundles \ {u}
      /\ messages' = messages \ mail /\ prekeys' = prekeys \ keys
      /\ posts' = posts \ sent /\ receipts' = receipts \ due
      /\ UNCHANGED <<messageSeq, ended, prekeySeq, handedOut, postSeq, overlapped>>
  BY DEF commit_deletion, Close, Open
<1>2. /\ conn'[c] = Idle /\ \A d \in Connection \ {c} : conn'[d] = conn[d]
      /\ Idle.stage = "idle"
  BY <1>1, OneConnection, StageTypes
<1>3. At(c, "deleting") /\ u \in Account BY Stages DEF commit_deletion, At
<1>4. StorageTypes' BY <1>1, StageTypes DEF StorageTypes, Open
<1>5. \A d \in Connection : At(d, "ended") => conn[d].row \notin mail
  BY <1>1 DEF Locked, Deletes, At
<1>6. \A d \in Connection : At(d, "popped") => conn[d].row \notin keys
  BY <1>1 DEF Locked, Deletes, At
<1>10. \A d \in Connection : At(d, "withdrawn") => conn[d].row \notin sent
  BY <1>1 DEF Locked, Deletes, At
<1>11. \A d \in Connection : conn[d].stage \in Acknowledging => conn[d].row \notin due
  BY <1>1 DEF Locked, Deletes, Acknowledging
<1>12. \A r \in receipts \ due : r.user # u /\ \A m \in sent : m.id # r.post
  OBVIOUS
<1>13. \A m \in posts \ sent : m.sender # u
  OBVIOUS
<1> HIDE DEF mail, keys, sent, due
<1>7. MessagesOnce'
  <2>1. \A d \in Connection : At(d, "ended")' =>
          /\ conn'[d].row \in messages'
          /\ \A e \in Connection \ {d} : At(e, "ended")' => conn'[e].row # conn'[d].row
    BY <1>1, <1>2, <1>5 DEF MessagesOnce, At
  <2>2. \A d \in Connection : At(d, "inserted")' =>
          /\ conn'[d].row.id <= messageSeq'
          /\ ended'[conn'[d].row.id] = 0
          /\ \A m \in messages' : m.id # conn'[d].row.id
          /\ \A e \in Connection \ {d} :
               At(e, "inserted")' => conn'[e].row.id # conn'[d].row.id
    BY <1>1, <1>2 DEF MessagesOnce, At
  <2> QED BY <1>1, <2>1, <2>2 DEF MessagesOnce
<1>8. PrekeysOnce'
  <2>1. \A d \in Connection : At(d, "popped")' =>
          /\ conn'[d].row \in prekeys'
          /\ \A e \in Connection \ {d} : At(e, "popped")' => conn'[e].row # conn'[d].row
    BY <1>1, <1>2, <1>6 DEF PrekeysOnce, At
  <2>2. \A d \in Connection : At(d, "uploaded")' => \A i \in conn'[d].ids :
          /\ i <= prekeySeq'
          /\ handedOut'[i] = 0
          /\ \A p \in prekeys' : p.id # i
          /\ \A e \in Connection \ {d} : At(e, "uploaded")' => i \notin conn'[e].ids
    BY <1>1, <1>2 DEF PrekeysOnce, At
  <2> QED BY <1>1, <2>1, <2>2 DEF PrekeysOnce
<1>14. PostsOnce'
  <2>1. \A m \in posts' : m.id <= postSeq' BY <1>1 DEF PostsOnce
  <2>2. \A r \in receipts' : r.post <= postSeq' BY <1>1 DEF PostsOnce
  <2>3. ASSUME NEW d \in Connection, conn'[d].stage # "idle"
        PROVE  d # c /\ conn'[d] = conn[d]
    BY <1>2, <2>3
  <2>4. ASSUME NEW d \in Connection, conn'[d].stage \in {"posted", "addressed"}
        PROVE  /\ conn'[d].row.id <= postSeq'
               /\ \A r \in receipts' : r.post # conn'[d].row.id
               /\ \A e \in Connection \ {d} : conn'[e].stage \in {"posted", "addressed"}
                    => conn'[e].row.id # conn'[d].row.id
    BY <1>1, <2>3, <2>4 DEF PostsOnce
  <2>5. ASSUME NEW d \in Connection, At(d, "withdrawn")'
        PROVE  /\ conn'[d].row \in posts'
               /\ \A e \in Connection \ {d} :
                    At(e, "withdrawn")' => conn'[e].row # conn'[d].row
               /\ \A e \in Connection : conn'[e].stage \in Acknowledging =>
                    conn'[e].row.post # conn'[d].row.id
    BY <1>1, <1>10, <2>3, <2>5 DEF PostsOnce, At, Acknowledging
  <2>6. ASSUME NEW d \in Connection, conn'[d].stage \in Acknowledging
        PROVE  /\ conn'[d].row \in receipts'
               /\ \A e \in Connection \ {d} :
                    conn'[e].stage \in Acknowledging => conn'[e].row # conn'[d].row
    BY <1>1, <1>11, <2>3, <2>6 DEF PostsOnce, Acknowledging
  <2>7. ASSUME NEW d \in Connection, At(d, "last")'
        PROVE  \A r \in receipts' : r.post = conn'[d].row.post => r = conn'[d].row
    BY <1>1, <2>3, <2>7 DEF PostsOnce, At
  <2> QED BY <2>1, <2>2, <2>4, <2>5, <2>6, <2>7 DEF PostsOnce
<1>9. ReferencesHold'
  <2>6. /\ \A m \in messages' : m.sender \in accounts' /\ m.recipient \in accounts'
        /\ bundles' \subseteq accounts'
        /\ \A p \in prekeys' : p.user \in accounts'
    BY <1>1 DEF ReferencesHold, NothingOfDeletedAccounts, mail, keys
  <2>7. \A m \in posts' : m.sender \in accounts'
    BY <1>1, <1>13 DEF ReferencesHold, NothingOfDeletedAccounts
  <2>8. ASSUME NEW r \in receipts'
        PROVE  r.user \in accounts' /\ \E m \in posts' : m.id = r.post
    <3>1. r \in receipts \ due BY <1>1
    <3>2. r.user \in accounts /\ \E m \in posts : m.id = r.post
      BY <3>1 DEF ReferencesHold, NothingOfDeletedAccounts
    <3> QED BY <1>1, <1>12, <3>1, <3>2
  <2>1. NothingOfDeletedAccounts'
    BY <2>6, <2>7, <2>8 DEF NothingOfDeletedAccounts
  <2>2. Deleting(u) BY <1>3 DEF Deleting
  <2>3. \A v \in Account : Deleting(v)' => Deleting(v) BY <1>2 DEF Deleting, At
  <2>4. \A d \in Connection, v \in Account : Refers(d, v)' => Refers(d, v)
    BY <1>2 DEF Refers, At
  <2>5. \A d \in Connection, v \in Account : Refers(d, v)' => v # u
    BY <1>3, <2>2, <2>4 DEF ReferencesHold
  <2> QED BY <1>1, <2>1, <2>3, <2>4, <2>5 DEF ReferencesHold
<1> QED BY <1>4, <1>7, <1>8, <1>9, <1>14

\* What was not committed held nothing that others need.
LEMMA RollbackKeeps ==
    ASSUME StorageInvariant, NEW c \in Connection, rollback(c)
    PROVE  StorageInvariant'
<1> USE DEF StorageInvariant
<1>1. Open(c, Idle)
      /\ UNCHANGED <<accounts, messages, messageSeq, ended, bundles, prekeys,
                     prekeySeq, handedOut, postVars>>
  BY DEF rollback, Close, Open, messageVars, keyVars
<1>2. StorageTypes' BY <1>1, StageTypes DEF StorageTypes, Open, postVars
<1>3. MessagesOnce' BY <1>1, StageTypes, MessagesRest DEF messageVars
<1>4. PrekeysOnce' /\ PostsOnce' BY <1>1, StageTypes, PrekeysRest, PostsRest DEF Acknowledging
<1>5. ReferencesHold' BY <1>1, StageTypes, ReferencesRest DEF postVars
<1> QED BY <1>2, <1>3, <1>4, <1>5
-----------------------------------------------------------------------------
(* The specification. *)

LEMMA StorageStarts == StorageInit => StorageInvariant
<1> SUFFICES ASSUME StorageInit PROVE StorageInvariant OBVIOUS
<1>1. \A c \in Connection : conn[c] = Idle /\ Idle.stage = "idle"
  BY StageTypes DEF StorageInit
<1>2. \A i \in MessageId : ended[i] = 0 BY DEF StorageInit
<1>3. \A i \in PrekeyId : handedOut[i] = 0 BY DEF StorageInit
<1>4. StorageTypes
  BY StageTypes, StorageBoundsAssumption DEF StorageInit, StorageTypes
<1>5. MessagesOnce BY <1>1, <1>2 DEF StorageInit, MessagesOnce, At
<1>6. PrekeysOnce BY <1>1, <1>3 DEF StorageInit, PrekeysOnce, At
<1>8. PostsOnce BY <1>1 DEF StorageInit, PostsOnce, At, Acknowledging
<1>7. ReferencesHold
  <2>1. NothingOfDeletedAccounts BY DEF StorageInit, NothingOfDeletedAccounts
  <2>2. \A c \in Connection, u \in Account : ~Refers(c, u) BY <1>1 DEF Refers, At
  <2> QED BY <2>1, <2>2 DEF ReferencesHold
<1> QED BY <1>4, <1>5, <1>6, <1>7, <1>8 DEF StorageInvariant

LEMMA StorageSteps ==
    StorageInvariant /\ [StorageNext]_storageVars => StorageInvariant'
<1> SUFFICES ASSUME StorageInvariant, [StorageNext]_storageVars
             PROVE  StorageInvariant'
  OBVIOUS
<1>1. ASSUME NEW c \in Connection, MessageStep(c) PROVE StorageInvariant'
  BY <1>1, StoreMessageKeeps, CommitMessageKeeps, DeleteMessageKeeps, CommitEndKeeps
     DEF MessageStep
<1>2. ASSUME NEW c \in Connection, KeyStep(c) PROVE StorageInvariant'
  BY <1>2, StoreKeyBundleKeeps, CommitBundleKeeps, AddPrekeysKeeps, CommitPrekeysKeeps,
     ChoosePrekeyKeeps, PopPrekeyKeeps, CommitPopKeeps
     DEF KeyStep
<1>3. ASSUME NEW c \in Connection, AccountStep(c) PROVE StorageInvariant'
  BY <1>3, DeleteUserKeeps, CommitDeletionKeeps, RollbackKeeps DEF AccountStep
<1>4. ASSUME NEW c \in Connection, GroupMessageStep(c) PROVE StorageInvariant'
  BY <1>4, StoreGroupMessageKeeps, StoreReceiptsKeeps, CommitGroupMessageKeeps,
     RevokeGroupMessageKeeps, CommitRevocationKeeps, RecordGroupReceiptKeeps,
     DeleteAcknowledgedKeeps, CommitReceiptKeeps
     DEF GroupMessageStep
<1>5. CASE UNCHANGED storageVars
  <2>1. UNCHANGED <<accounts, messages, messageSeq, bundles, prekeys, prekeySeq, posts,
                    postSeq, receipts, conn, ended, handedOut, overlapped>>
    BY <1>5 DEF storageVars
  <2>2. StorageTypes' BY <2>1 DEF StorageInvariant, StorageTypes
  <2>3. MessagesOnce' /\ PrekeysOnce'
    BY <2>1 DEF StorageInvariant, MessagesOnce, PrekeysOnce, At
  <2>4. PostsOnce' BY <2>1 DEF StorageInvariant, PostsOnce, At
  <2>5. ReferencesHold'
    BY <2>1 DEF StorageInvariant, ReferencesHold, NothingOfDeletedAccounts, Refers,
       Deleting, At
  <2> QED BY <2>2, <2>3, <2>4, <2>5 DEF StorageInvariant
<1> QED BY <1>1, <1>2, <1>3, <1>4, <1>5 DEF StorageNext

\* The invariant, of every execution.
LEMMA StorageInvariantHolds == StorageSpec => []StorageInvariant
BY StorageStarts, StorageSteps, PTL DEF StorageSpec

\* The rows of every table are rows the program writes, with ids that were
\* drawn, and a message in store has neither been acknowledged nor revoked.
THEOREM StorageCorrect == StorageSpec => []StorageTypeOK
<1>1. StorageInvariant => StorageTypeOK
  BY DEF StorageInvariant, StorageTypes, MessagesOnce, PrekeysOnce, PostsOnce, StorageTypeOK
<1> QED BY <1>1, StorageInvariantHolds, PTL

\* No two fetches, on however many connections, return the same prekey.
THEOREM PrekeysGoOnce == StorageSpec => []PrekeyHandedOutOnce
<1>1. StorageInvariant => PrekeyHandedOutOnce
  BY DEF StorageInvariant, PrekeysOnce, PrekeyHandedOutOnce
<1> QED BY <1>1, StorageInvariantHolds, PTL

\* Of the receipts and revocations of a message, one succeeds.
THEOREM MessagesEndOnce == StorageSpec => []EndedOnce
<1>1. StorageInvariant => EndedOnce
  BY DEF StorageInvariant, MessagesOnce, EndedOnce
<1> QED BY <1>1, StorageInvariantHolds, PTL

\* An account that is deleted leaves nothing, whatever was on its way.
THEOREM NothingIsLeft == StorageSpec => []NothingOfDeletedAccounts
<1>1. StorageInvariant => NothingOfDeletedAccounts
  BY DEF StorageInvariant, ReferencesHold
<1> QED BY <1>1, StorageInvariantHolds, PTL

\* A group message goes by revocation, with its sender, or when the receipt that
\* is being deleted is the only one of it.
THEOREM PostsGoWhenAllHaveThem == StorageSpec => GoesWhenAllHaveIt
<1> DEFINE Goes(m) ==
             \/ \E c \in Connection : At(c, "withdrawn") /\ conn[c].row = m
             \/ m.sender \notin accounts'
             \/ \E c \in Connection : At(c, "last") /\ ReceiptsOf(m) = {conn[c].row}
<1>1. ASSUME StorageInvariant, StorageNext, NEW m \in posts \ posts'
      PROVE  Goes(m)
  <2> PICK c \in Connection :
        MessageStep(c) \/ KeyStep(c) \/ GroupMessageStep(c) \/ AccountStep(c)
    BY <1>1 DEF StorageNext
  <2>1. CASE commit_revocation(c)
    BY <1>1, <2>1 DEF commit_revocation
  <2>2. CASE commit_deletion(c)
    BY <1>1, <2>2 DEF commit_deletion
  <2>3. CASE commit_receipt(c)
    <3>1. At(c, "last") /\ m \in posts /\ m.id = conn[c].row.post
      BY <1>1, <2>3 DEF commit_receipt
    <3>2. conn[c].row \in receipts
          /\ \A r \in receipts : r.post = conn[c].row.post => r = conn[c].row
      BY <1>1, <3>1 DEF StorageInvariant, PostsOnce, At, Acknowledging
    <3>3. ReceiptsOf(m) = {conn[c].row} BY <3>1, <3>2 DEF ReceiptsOf
    <3> QED BY <3>1, <3>3
  <2>4. CASE commit_group_message(c)
    BY <1>1, <2>4 DEF commit_group_message
  <2>5. CASE posts' = posts BY <1>1, <2>5
  <2>6. MessageStep(c) => posts' = posts
    BY DEF MessageStep, store_message, commit_message, delete_message, commit_end, postVars
  <2>7. KeyStep(c) => posts' = posts
    BY DEF KeyStep, store_key_bundle, choose_prekey, commit_bundle, add_one_time_prekeys,
       commit_prekeys, pop_one_time_prekey, commit_pop, postVars
  <2>8. GroupMessageStep(c) =>
          \/ commit_revocation(c) \/ commit_receipt(c) \/ commit_group_message(c)
          \/ posts' = posts
    BY DEF GroupMessageStep, store_group_message, store_receipts, revoke_group_message,
       record_group_receipt, delete_acknowledged, postVars
  <2>9. AccountStep(c) => commit_deletion(c) \/ posts' = posts
    BY DEF AccountStep, delete_user, rollback, postVars
  <2> QED BY <2>1, <2>2, <2>3, <2>4, <2>5, <2>6, <2>7, <2>8, <2>9
<1>2. StorageInvariant /\ [StorageNext]_storageVars =>
        [\A m \in posts \ posts' : Goes(m)]_storageVars
  BY <1>1
<1> QED BY <1>2, StorageInvariantHolds, PTL DEF StorageSpec, GoesWhenAllHaveIt
-----------------------------------------------------------------------------
(* Why a group message may stay without receipts.                          *)

\* Two of its receipts were recorded at once, or an account has gone.
Excused(i) == i \in overlapped \/ accounts # Account

\* The id of a group message is its own.
PostIdsOnce ==
    /\ \A m, n \in posts : m.id = n.id => m = n
    /\ \A c \in Connection : conn[c].stage \in {"posted", "addressed"} =>
         \A m \in posts : m.id # conn[c].row.id

\* Who acknowledges a message that nobody else is acknowledging and leaves it,
\* leaves it to somebody who has not acknowledged it.
OthersWait ==
    /\ \A c \in Connection : \A d \in Connection \ {c} : \A i \in PostId :
         Acknowledges(c, i) /\ Acknowledges(d, i) => i \in overlapped
    /\ \A c \in Connection : At(c, "kept") =>
         Excused(conn[c].row.post) \/ OthersOutstanding(conn[c].row) # {}

\* A message has receipts from the start, and to the end.
ReceiptsWait ==
    /\ \A c \in Connection : At(c, "addressed") =>
         conn[c].to # {} \/ accounts # Account \/ Account = {conn[c].row.sender}
    /\ \A m \in posts : ReceiptsOf(m) # {} \/ Excused(m.id) \/ Account = {m.sender}

PostsAwaited == PostIdsOnce /\ OthersWait /\ ReceiptsWait

\* Connections that turn to something else, and accounts that go.
LEMMA AwaitedRests ==
    ASSUME StorageTypes, PostsAwaited, NEW c \in Connection, NEW t, Open(c, t),
           t.stage \notin {"posted", "addressed"} \cup Acknowledging,
           accounts' = accounts \/ accounts' # Account, overlapped' = overlapped,
           posts' \subseteq posts, accounts' = Account => receipts' = receipts
    PROVE  PostsAwaited'
<1> USE DEF PostsAwaited
<1>1. conn'[c] = t /\ \A d \in Connection \ {c} : conn'[d] = conn[d]
  BY OneConnection
<1>2. \A d \in Connection : conn'[d].stage \in {"posted", "addressed"} \cup Acknowledging =>
        d # c /\ conn'[d] = conn[d]
  BY <1>1
<1>3. PostIdsOnce' BY <1>2 DEF PostIdsOnce
<1>4. accounts # Account => accounts' # Account OBVIOUS
<1>5. OthersWait'
  <2>1. \A d \in Connection, i \in PostId : Acknowledges(d, i)' => Acknowledges(d, i)
    BY <1>2 DEF Acknowledges, Acknowledging
  <2>2. ASSUME NEW d \in Connection, At(d, "kept")'
        PROVE  (Excused(conn[d].row.post) \/ OthersOutstanding(conn[d].row) # {})'
    <3>1. conn'[d] = conn[d] /\ At(d, "kept") BY <1>2, <2>2 DEF At, Acknowledging
    <3>2. Excused(conn[d].row.post) \/ OthersOutstanding(conn[d].row) # {}
      BY <3>1 DEF OthersWait
    <3> QED BY <1>4, <3>1, <3>2 DEF Excused, OthersOutstanding
  <2> QED BY <2>1, <2>2 DEF OthersWait
<1>6. ReceiptsWait'
  <2>1. \A d \in Connection : At(d, "addressed")' =>
          (conn[d].to # {} \/ accounts # Account \/ Account = {conn[d].row.sender})'
    BY <1>2, <1>4 DEF ReceiptsWait, At
  <2>2. \A m \in posts' : (ReceiptsOf(m) # {})' \/ Excused(m.id)' \/ Account = {m.sender}
    BY <1>4 DEF ReceiptsWait, ReceiptsOf, Excused
  <2> QED BY <2>1, <2>2 DEF ReceiptsWait
<1> QED BY <1>3, <1>5, <1>6

\* A message that is inserted is told to the members there are.
LEMMA StoreAwaits ==
    ASSUME StorageInvariant, PostsAwaited, NEW c \in Connection, NEW s \in Account,
           store_group_message(c, s) \/ store_receipts(c)
    PROVE  PostsAwaited'
<1> USE DEF StorageInvariant, PostsAwaited
<1>1. PICK t : /\ Open(c, t) /\ t.stage \in {"posted", "addressed"}
               /\ \A m \in posts : m.id # t.row.id
               /\ t.stage = "addressed" =>
                    t.to # {} \/ accounts # Account \/ Account = {t.row.sender}
  <2>1. CASE store_group_message(c, s)
    <3>1. Open(c, [stage |-> "posted", row |-> [id |-> postSeq + 1, sender |-> s]])
      BY <2>1 DEF store_group_message
    <3>2. postSeq \in Nat /\ \A m \in posts : m.id \in Nat /\ m.id <= postSeq
      BY StorageBoundsAssumption DEF StorageTypes, Post, PostId, PostsOnce
    <3> QED BY <3>1, <3>2
  <2>2. CASE store_receipts(c)
    <3> DEFINE to == accounts \ {conn[c].row.sender}
    <3>1. At(c, "posted") /\ Open(c, [stage |-> "addressed", row |-> conn[c].row, to |-> to])
      BY <2>2 DEF store_receipts
    <3>2. conn[c].row.sender \in Account BY <3>1, Stages DEF At, Post
    <3>3. to # {} \/ accounts # Account \/ Account = {conn[c].row.sender} BY <3>2
    <3>4. \A m \in posts : m.id # conn[c].row.id BY <3>1 DEF PostIdsOnce, At
    <3> QED BY <3>1, <3>3, <3>4
  <2> QED BY <2>1, <2>2
<1>2. conn'[c] = t /\ \A d \in Connection \ {c} : conn'[d] = conn[d]
  BY <1>1, OneConnection
<1>3. UNCHANGED <<accounts, posts, receipts, overlapped>>
  BY DEF store_group_message, store_receipts, postVars
<1>4. \A d \in Connection : conn'[d].stage \in Acknowledging => conn'[d] = conn[d]
  BY <1>1, <1>2 DEF Acknowledging
<1>5. PostIdsOnce' BY <1>1, <1>2, <1>3 DEF PostIdsOnce
<1>6. OthersWait'
  <2>1. \A d \in Connection, i \in PostId : Acknowledges(d, i)' => Acknowledges(d, i)
    BY <1>4 DEF Acknowledges, Acknowledging
  <2>2. \A d \in Connection : At(d, "kept")' => At(d, "kept") /\ conn'[d] = conn[d]
    BY <1>4 DEF At, Acknowledging
  <2> QED BY <1>3, <2>1, <2>2 DEF OthersWait, Excused, OthersOutstanding
<1>7. ReceiptsWait' BY <1>1, <1>2, <1>3 DEF ReceiptsWait, At, ReceiptsOf, Excused
<1> QED BY <1>5, <1>6, <1>7

\* Its receipts come with it, and a message that goes takes only its own along.
LEMMA CommitAwaits ==
    ASSUME StorageInvariant, PostsAwaited, NEW c \in Connection,
           commit_group_message(c) \/ commit_revocation(c)
    PROVE  PostsAwaited'
<1> USE DEF StorageInvariant, PostsAwaited
<1> DEFINE row == conn[c].row
<1>1. Open(c, Idle) /\ UNCHANGED <<accounts, overlapped>>
  BY DEF commit_group_message, commit_revocation, Close, Open
<1>2. /\ conn'[c] = Idle /\ \A d \in Connection \ {c} : conn'[d] = conn[d]
      /\ Idle.stage = "idle"
  BY <1>1, OneConnection, StageTypes
<1>3. \A d \in Connection : conn'[d].stage # "idle" => d # c /\ conn'[d] = conn[d]
  BY <1>2
<1>4. PostIdsOnce'
  <2>1. CASE commit_group_message(c)
    <3>1. At(c, "addressed") /\ posts' = posts \cup {row}
      BY <2>1 DEF commit_group_message
    <3>2. /\ \A m \in posts : m.id # row.id
          /\ \A d \in Connection \ {c} :
               conn[d].stage \in {"posted", "addressed"} => conn[d].row.id # row.id
      BY <3>1 DEF PostIdsOnce, PostsOnce, At
    <3> QED BY <1>3, <3>1, <3>2 DEF PostIdsOnce
  <2>2. CASE commit_revocation(c)
    BY <1>3, <2>2 DEF PostIdsOnce, commit_revocation
  <2> QED BY <2>1, <2>2
<1>5. \A d \in Connection : conn[d].stage \in Acknowledging =>
        \A r \in receipts : r.post = conn[d].row.post => r \in receipts'
  <2>1. CASE commit_group_message(c) BY <2>1 DEF commit_group_message
  <2>2. CASE commit_revocation(c)
    <3>1. At(c, "withdrawn") /\ receipts' = receipts \ ReceiptsOf(row)
      BY <2>2 DEF commit_revocation
    <3>2. \A d \in Connection : conn[d].stage \in Acknowledging =>
            conn[d].row.post # row.id
      BY <3>1 DEF PostsOnce
    <3> QED BY <3>1, <3>2 DEF ReceiptsOf
  <2> QED BY <2>1, <2>2
<1>6. OthersWait'
  <2>1. \A d \in Connection, i \in PostId : Acknowledges(d, i)' => Acknowledges(d, i)
    BY <1>3 DEF Acknowledges
  <2>2. ASSUME NEW d \in Connection, At(d, "kept")'
        PROVE  (Excused(conn[d].row.post) \/ OthersOutstanding(conn[d].row) # {})'
    <3>1. conn'[d] = conn[d] /\ At(d, "kept") /\ conn[d].stage \in Acknowledging
      BY <1>3, <2>2 DEF At, Acknowledging
    <3>2. Excused(conn[d].row.post) \/ OthersOutstanding(conn[d].row) # {}
      BY <3>1 DEF OthersWait
    <3> QED BY <1>1, <1>5, <3>1, <3>2 DEF Excused, OthersOutstanding
  <2> QED BY <1>1, <2>1, <2>2 DEF OthersWait
<1>7. ReceiptsWait'
  <2>1. \A d \in Connection : At(d, "addressed")' =>
          (conn[d].to # {} \/ accounts # Account \/ Account = {conn[d].row.sender})'
    BY <1>1, <1>3 DEF ReceiptsWait, At
  <2>2. ASSUME NEW m \in posts'
        PROVE  (ReceiptsOf(m) # {})' \/ Excused(m.id)' \/ Account = {m.sender}
    <3>1. CASE m \in posts
      <4>1. \A r \in receipts : r.post = m.id => r \in receipts'
        <5>1. CASE commit_group_message(c) BY <5>1 DEF commit_group_message
        <5>2. CASE commit_revocation(c)
          <6>1. /\ At(c, "withdrawn") /\ posts' = posts \ {row}
                /\ receipts' = receipts \ ReceiptsOf(row)
            BY <5>2 DEF commit_revocation
          <6>2. m.id # row.id BY <2>2, <3>1, <6>1 DEF PostsOnce, PostIdsOnce
          <6> QED BY <6>1, <6>2 DEF ReceiptsOf
        <5> QED BY <5>1, <5>2
      <4> QED BY <1>1, <3>1, <4>1 DEF ReceiptsWait, ReceiptsOf, Excused
    <3>2. CASE m \notin posts
      <4>1. /\ At(c, "addressed") /\ m = row
            /\ receipts' = receipts \cup [post : {row.id}, user : conn[c].to]
        BY <2>2, <3>2 DEF commit_group_message, commit_revocation
      <4>2. \A u \in conn[c].to : [post |-> row.id, user |-> u] \in ReceiptsOf(m)'
        BY <4>1 DEF ReceiptsOf
      <4> QED BY <1>1, <4>1, <4>2 DEF ReceiptsWait, Excused
    <3> QED BY <3>1, <3>2
  <2> QED BY <2>1, <2>2 DEF ReceiptsWait
<1> QED BY <1>4, <1>6, <1>7

\* Who acknowledges while another does so is noted; who sees another receipt
\* leaves it to that.
LEMMA ReceiptAwaits ==
    ASSUME StorageInvariant, PostsAwaited, NEW c \in Connection,
           (\E r \in receipts : record_group_receipt(c, r)) \/ delete_acknowledged(c)
    PROVE  PostsAwaited'
<1> USE DEF StorageInvariant, PostsAwaited
<1>1. PICK t : /\ Open(c, t) /\ t.stage \in Acknowledging /\ t.row \in receipts
               /\ t.stage = "kept" => OthersOutstanding(t.row) # {}
               /\ \/ \A i : t.row.post = i => Acknowledges(c, i)
                  \/ \A d \in Connection : Acknowledges(d, t.row.post) =>
                       t.row.post \in overlapped'
  <2>1. CASE \E r \in receipts : record_group_receipt(c, r)
    <3>1. PICK r \in receipts : record_group_receipt(c, r) BY <2>1
    <3>2. Open(c, [stage |-> "acknowledged", row |-> r]) BY <3>1 DEF record_group_receipt
    <3>3. \A d \in Connection : Acknowledges(d, r.post) => r.post \in overlapped'
      BY <3>1 DEF record_group_receipt
    <3> QED BY <3>2, <3>3 DEF Acknowledging
  <2>2. CASE delete_acknowledged(c)
    <3> DEFINE st == IF OthersOutstanding(conn[c].row) = {} THEN "last" ELSE "kept"
    <3>1. At(c, "acknowledged") /\ Open(c, [stage |-> st, row |-> conn[c].row])
      BY <2>2 DEF delete_acknowledged
    <3>2. conn[c].row \in receipts BY <3>1 DEF PostsOnce, At, Acknowledging
    <3>3. \A i : conn[c].row.post = i => Acknowledges(c, i) BY <3>1 DEF Acknowledges, At
    <3> QED BY <3>1, <3>2, <3>3 DEF Acknowledging
  <2> QED BY <2>1, <2>2
<1>2. conn'[c] = t /\ \A d \in Connection \ {c} : conn'[d] = conn[d]
  BY <1>1, OneConnection
<1>3. UNCHANGED <<accounts, posts, receipts>> /\ overlapped \subseteq overlapped'
  BY DEF record_group_receipt, delete_acknowledged, postVars
<1>4. PostIdsOnce' BY <1>1, <1>2, <1>3 DEF PostIdsOnce, Acknowledging
<1>5. OthersWait'
  <2>1. \A d \in Connection \ {c}, i \in PostId : Acknowledges(d, i)' => Acknowledges(d, i)
    BY <1>2 DEF Acknowledges
  <2>2. \A i : Acknowledges(c, i)' => t.row.post = i BY <1>2 DEF Acknowledges
  <2>3. ASSUME NEW d \in Connection \ {c}, NEW i \in PostId,
               Acknowledges(c, i)', Acknowledges(d, i)'
        PROVE  i \in overlapped'
    BY <1>1, <1>3, <2>1, <2>2, <2>3 DEF OthersWait
  <2>4. \A d \in Connection : \A e \in Connection \ {d} : \A i \in PostId :
          Acknowledges(d, i)' /\ Acknowledges(e, i)' => i \in overlapped'
    BY <1>3, <2>1, <2>3 DEF OthersWait
  <2>5. \A d \in Connection : At(d, "kept")' =>
          (Excused(conn[d].row.post) \/ OthersOutstanding(conn[d].row) # {})'
    BY <1>1, <1>2, <1>3 DEF OthersWait, At, Excused, OthersOutstanding
  <2> QED BY <2>4, <2>5 DEF OthersWait
<1>6. ReceiptsWait'
  BY <1>1, <1>2, <1>3 DEF ReceiptsWait, At, ReceiptsOf, Excused, Acknowledging
<1> QED BY <1>4, <1>5, <1>6

\* Whom a receipt was left to has still not acknowledged the message.
LEMMA CommitReceiptAwaits ==
    ASSUME StorageInvariant, PostsAwaited, NEW c \in Connection, commit_receipt(c)
    PROVE  PostsAwaited'
<1> DEFINE q == conn[c].row
           gone == {m \in posts : At(c, "last") /\ m.id = q.post}
<1> USE DEF StorageInvariant, PostsAwaited
<1>1. /\ Open(c, Idle) /\ conn[c].stage \in {"kept", "last"}
      /\ posts' = posts \ gone
      /\ receipts' = {r \in receipts \ {q} : \A m \in gone : m.id # r.post}
      /\ UNCHANGED <<accounts, overlapped>>
  BY DEF commit_receipt, Close, Open, At
<1>2. /\ conn'[c] = Idle /\ \A d \in Connection \ {c} : conn'[d] = conn[d]
      /\ Idle.stage = "idle"
  BY <1>1, OneConnection, StageTypes
<1>3. \A d \in Connection : conn'[d].stage # "idle" => d # c /\ conn'[d] = conn[d]
  BY <1>2
<1>4. \A r \in receipts : r.post # q.post => r \in receipts' BY <1>1
<1>5. PostIdsOnce' BY <1>1, <1>3 DEF PostIdsOnce
<1>6. OthersWait'
  <2>1. \A d \in Connection, i \in PostId : Acknowledges(d, i)' => Acknowledges(d, i)
    BY <1>3 DEF Acknowledges
  <2>2. ASSUME NEW d \in Connection, At(d, "kept")'
        PROVE  (Excused(conn[d].row.post) \/ OthersOutstanding(conn[d].row) # {})'
    <3>1. d # c /\ conn'[d] = conn[d] /\ At(d, "kept") BY <1>3, <2>2 DEF At
    <3>2. Excused(conn[d].row.post) \/ OthersOutstanding(conn[d].row) # {}
      BY <3>1 DEF OthersWait
    <3>3. CASE conn[d].row.post = q.post
      <4>1. conn[d].row.post \in PostId
        BY <3>1, Stages DEF At, Acknowledging, Receipt
      <4>2. Acknowledges(c, q.post) /\ Acknowledges(d, q.post)
        BY <1>1, <3>1, <3>3 DEF Acknowledges, At
      <4> QED BY <1>1, <3>1, <3>3, <4>1, <4>2 DEF OthersWait, Excused
    <3>4. CASE conn[d].row.post # q.post
      BY <1>1, <1>4, <3>1, <3>2, <3>4 DEF Excused, OthersOutstanding
    <3> QED BY <3>3, <3>4
  <2> QED BY <1>1, <2>1, <2>2 DEF OthersWait
<1>7. ReceiptsWait'
  <2>1. \A d \in Connection : At(d, "addressed")' =>
          (conn[d].to # {} \/ accounts # Account \/ Account = {conn[d].row.sender})'
    BY <1>1, <1>3 DEF ReceiptsWait, At
  <2>2. ASSUME NEW m \in posts'
        PROVE  (ReceiptsOf(m) # {})' \/ Excused(m.id)' \/ Account = {m.sender}
    <3>1. m \in posts /\ m \notin gone BY <1>1, <2>2
    <3>2. CASE m.id # q.post
      BY <1>1, <1>4, <3>1, <3>2 DEF ReceiptsWait, ReceiptsOf, Excused
    <3>3. CASE m.id = q.post
      <4>1. At(c, "kept") /\ gone = {} BY <1>1, <3>1, <3>3 DEF At
      <4>2. Excused(q.post) \/ OthersOutstanding(q) # {} BY <4>1 DEF OthersWait
      <4>3. OthersOutstanding(q) \subseteq ReceiptsOf(m)'
        BY <1>1, <3>3, <4>1 DEF OthersOutstanding, ReceiptsOf
      <4> QED BY <1>1, <3>3, <4>2, <4>3 DEF Excused
    <3> QED BY <3>2, <3>3
  <2> QED BY <2>1, <2>2 DEF ReceiptsWait
<1> QED BY <1>5, <1>6, <1>7

\* All other steps leave group messages, or all accounts, alone.
LEMMA AwaitedStep ==
    StorageInvariant /\ PostsAwaited /\ [StorageNext]_storageVars => PostsAwaited'
<1> SUFFICES ASSUME StorageInvariant, PostsAwaited, [StorageNext]_storageVars
             PROVE  PostsAwaited'
  OBVIOUS
<1> DEFINE Elsewhere(c) ==
             \E t : /\ Open(c, t)
                    /\ t.stage \notin {"posted", "addressed"} \cup Acknowledging
<1>1. ASSUME NEW c \in Connection, Elsewhere(c), accounts' = accounts, UNCHANGED postVars
      PROVE  PostsAwaited'
  BY <1>1, AwaitedRests DEF StorageInvariant, postVars
<1>2. ASSUME NEW c \in Connection, MessageStep(c) PROVE PostsAwaited'
  <2>1. Elsewhere(c) /\ accounts' = accounts /\ UNCHANGED postVars
    BY <1>2, StageTypes DEF MessageStep, store_message, commit_message, delete_message,
       commit_end, Close, Open, Acknowledging
  <2> QED BY <1>1, <2>1
<1>3. ASSUME NEW c \in Connection, KeyStep(c) PROVE PostsAwaited'
  <2>1. accounts' = accounts /\ UNCHANGED postVars
    BY <1>3 DEF KeyStep, store_key_bundle, choose_prekey, commit_bundle,
       add_one_time_prekeys, commit_prekeys, pop_one_time_prekey, commit_pop
  <2>2. ASSUME NEW u \in Account, store_key_bundle(c, u) \/ choose_prekey(c, u)
        PROVE  Elsewhere(c)
    <3>1. CASE store_key_bundle(c, u) BY <3>1 DEF store_key_bundle, Acknowledging
    <3>2. CASE choose_prekey(c, u)
      <4>1. PICK p \in FirstPrekeys(u) : Open(c, [stage |-> "chosen", row |-> p])
        BY <3>2 DEF choose_prekey
      <4> QED BY <4>1 DEF Acknowledging
    <3> QED BY <2>2, <3>1, <3>2
  <2>3. (\E u \in Account, n \in 0..MaxUpload : add_one_time_prekeys(c, u, n)) => Elsewhere(c)
    BY DEF add_one_time_prekeys, Acknowledging
  <2>4. commit_bundle(c) \/ commit_prekeys(c) \/ commit_pop(c) => Elsewhere(c)
    BY StageTypes DEF commit_bundle, commit_prekeys, commit_pop, Close, Open, Acknowledging
  <2>5. pop_one_time_prekey(c) => Elsewhere(c)
    <3>1. conn[c] \in Transaction BY DEF StorageInvariant, StorageTypes
    <3>2. At(c, "chosen") => [conn[c] EXCEPT !.stage = "popped"].stage = "popped"
      BY <3>1 DEF At, Transaction, Idle
    <3> QED BY <3>2, StageTypes DEF pop_one_time_prekey, Close, Open, Acknowledging
  <2>6. Elsewhere(c) BY <1>3, <2>2, <2>3, <2>4, <2>5 DEF KeyStep
  <2> QED BY <1>1, <2>1, <2>6
<1>4. ASSUME NEW c \in Connection, AccountStep(c) PROVE PostsAwaited'
  <2>1. CASE rollback(c) \/ \E u \in Account : delete_user(c, u)
    <3>1. Elsewhere(c) /\ accounts' = accounts /\ UNCHANGED postVars
      BY <2>1, StageTypes DEF rollback, delete_user, Close, Open, Acknowledging
    <3> QED BY <1>1, <3>1
  <2>2. CASE commit_deletion(c)
    <3>1. At(c, "deleting") /\ accounts' = accounts \ {conn[c].user}
      BY <2>2 DEF commit_deletion
    <3>2. conn[c].user \in Account BY <3>1, Stages DEF StorageInvariant, At
    <3>3. accounts' # Account BY <3>1, <3>2
    <3>4. Open(c, Idle) /\ posts' \subseteq posts /\ overlapped' = overlapped
      BY <2>2 DEF commit_deletion, Close, Open
    <3>5. Idle.stage \notin {"posted", "addressed"} \cup Acknowledging
      BY DEF Idle, Acknowledging
    <3> QED BY <3>3, <3>4, <3>5, AwaitedRests DEF StorageInvariant
  <2> QED BY <1>4, <2>1, <2>2 DEF AccountStep
<1>5. ASSUME NEW c \in Connection, GroupMessageStep(c) PROVE PostsAwaited'
  <2>1. CASE \E m \in posts : revoke_group_message(c, m)
    <3>1. Elsewhere(c) /\ accounts' = accounts /\ UNCHANGED postVars
      BY <2>1 DEF revoke_group_message, Acknowledging
    <3> QED BY <1>1, <3>1
  <2>2. CASE (\E s \in Account : store_group_message(c, s)) \/ store_receipts(c)
    <3>1. Account # {}
      BY <2>2, Stages DEF store_receipts, StorageInvariant, At, Post
    <3> QED BY <2>2, <3>1, StoreAwaits
  <2> QED BY <1>5, <2>1, <2>2, CommitAwaits, ReceiptAwaits, CommitReceiptAwaits
          DEF GroupMessageStep
<1>6. CASE UNCHANGED storageVars
  <2>1. UNCHANGED <<accounts, posts, receipts, conn, overlapped>> BY <1>6 DEF storageVars
  <2> QED BY <2>1 DEF PostsAwaited, PostIdsOnce, OthersWait, ReceiptsWait, At, Acknowledges,
          Excused, OthersOutstanding, ReceiptsOf
<1> QED BY <1>2, <1>3, <1>4, <1>5, <1>6 DEF StorageNext

LEMMA AwaitedStarts == StorageInit => PostsAwaited
<1> SUFFICES ASSUME StorageInit PROVE PostsAwaited OBVIOUS
<1>1. \A c \in Connection : conn[c] = Idle /\ Idle.stage = "idle"
  BY StageTypes DEF StorageInit
<1> QED BY <1>1 DEF StorageInit, PostsAwaited, PostIdsOnce, OthersWait, ReceiptsWait, At,
        Acknowledges

\* Only receipts recorded at once, and accounts deleted, leave a group message
\* that nobody has to acknowledge (group.py 326-345).
THEOREM PostsStayOnlyIfOverlapped == StorageSpec => []StaysOnlyIfOverlapped
<1>1. PostsAwaited => StaysOnlyIfOverlapped
  BY DEF PostsAwaited, ReceiptsWait, StaysOnlyIfOverlapped, Excused
<1> QED BY <1>1, AwaitedStarts, AwaitedStep, StorageInvariantHolds, PTL DEF StorageSpec
-----------------------------------------------------------------------------
(* Transactions do at their commits what one step could have done.         *)

\* What a statement has checked is still so when its transaction commits,
\* though no statement checks it again.
Prepared ==
    /\ \A c \in Connection : At(c, "inserted") => conn[c].row.sender # conn[c].row.recipient
    /\ \A c \in Connection :
         conn[c].stage \in {"chosen", "popped"} /\ conn[c].row.user \in accounts =>
           conn[c].row.user \in bundles
    /\ \A c \in Connection :
         At(c, "addressed") => conn[c].to = accounts \ {conn[c].row.sender}
    /\ \A c \in Connection : At(c, "deleting") =>
         /\ conn[c].user \in accounts
         /\ \A d \in Connection \ {c} : At(d, "deleting") => conn[d].user # conn[c].user

\* Connections that turn to something else, and bundles that come.
LEMMA PreparedRests ==
    ASSUME StorageTypes, Prepared, NEW c \in Connection, NEW t, Open(c, t),
           t.stage \notin {"inserted", "chosen", "popped", "addressed", "deleting"},
           accounts' = accounts, bundles \subseteq bundles'
    PROVE  Prepared'
<1>1. conn'[c] = t /\ \A d \in Connection \ {c} : conn'[d] = conn[d]
  BY OneConnection
<1>2. \A d \in Connection :
        conn'[d].stage \in {"inserted", "chosen", "popped", "addressed", "deleting"} =>
          d # c /\ conn'[d] = conn[d]
  BY <1>1
<1> QED BY <1>2 DEF Prepared, At

\* A statement that has checked something.
LEMMA ChecksPrepare ==
    ASSUME StorageTypes, Prepared, NEW c \in Connection,
           \/ \E s \in Account, r \in Account : store_message(c, s, r)
           \/ \E u \in Account : choose_prekey(c, u)
           \/ pop_one_time_prekey(c)
           \/ store_receipts(c)
           \/ \E u \in Account : delete_user(c, u)
    PROVE  Prepared'
<1>1. UNCHANGED <<accounts, bundles>>
  BY DEF store_message, choose_prekey, pop_one_time_prekey, store_receipts,
     delete_user, keyVars
<1>2. PICK t :
        /\ Open(c, t)
        /\ t.stage = "inserted" => t.row.sender # t.row.recipient
        /\ t.stage \in {"chosen", "popped"} /\ t.row.user \in accounts =>
             t.row.user \in bundles
        /\ t.stage = "addressed" => t.to = accounts \ {t.row.sender}
        /\ t.stage = "deleting" => t.user \in accounts /\ ~Deleting(t.user)
  <2>1. CASE \E s \in Account, r \in Account : store_message(c, s, r)
    <3>1. PICK s \in Account, r \in Account : store_message(c, s, r) BY <2>1
    <3> QED BY <3>1 DEF store_message
  <2>2. CASE \E u \in Account : choose_prekey(c, u)
    <3>1. PICK u \in Account : choose_prekey(c, u) BY <2>2
    <3>2. PICK p \in FirstPrekeys(u) : Open(c, [stage |-> "chosen", row |-> p])
      BY <3>1 DEF choose_prekey
    <3> QED BY <3>1, <3>2 DEF choose_prekey, FirstPrekeys
  <2>3. CASE pop_one_time_prekey(c)
    <3>1. At(c, "chosen") /\ conn[c] \in Transaction BY <2>3 DEF pop_one_time_prekey, StorageTypes
    <3>2. PICK p \in Prekey : conn[c] = [stage |-> "chosen", row |-> p]
      BY <3>1 DEF At, Transaction, Idle
    <3>3. Open(c, [stage |-> "popped", row |-> p]) \/ Open(c, Idle)
      BY <2>3, <3>2 DEF pop_one_time_prekey, Close, Open
    <3>4. p.user \in accounts => p.user \in bundles BY <3>2 DEF Prepared
    <3> QED BY <3>3, <3>4, StageTypes
  <2>4. CASE store_receipts(c) BY <2>4 DEF store_receipts
  <2>5. CASE \E u \in Account : delete_user(c, u)
    <3>1. PICK u \in Account : delete_user(c, u) BY <2>5
    <3> QED BY <3>1 DEF delete_user, Referable
  <2> QED BY <2>1, <2>2, <2>3, <2>4, <2>5
<1>3. conn'[c] = t /\ \A d \in Connection \ {c} : conn'[d] = conn[d]
  BY <1>2, OneConnection
<1> QED BY <1>1, <1>2, <1>3 DEF Prepared, At, Deleting

\* An account that goes takes its bundle along, and waits for receipts that are
\* on their way.
LEMMA DeletionPrepares ==
    ASSUME StorageTypes, Prepared, NEW c \in Connection, commit_deletion(c)
    PROVE  Prepared'
<1> DEFINE u == conn[c].user
<1>1. /\ Open(c, Idle) /\ accounts' = accounts \ {u} /\ bundles' = bundles \ {u}
      /\ \A d \in Connection : conn[d].stage \notin {"posted", "addressed"}
  BY DEF commit_deletion, Close, Open
<1>2. /\ conn'[c] = Idle /\ \A d \in Connection \ {c} : conn'[d] = conn[d]
      /\ Idle.stage = "idle"
  BY <1>1, OneConnection, StageTypes
<1>3. At(c, "deleting") BY DEF commit_deletion
<1> QED BY <1>1, <1>2, <1>3 DEF Prepared, At

LEMMA PreparedStep ==
    StorageInvariant /\ Prepared /\ [StorageNext]_storageVars => Prepared'
<1> SUFFICES ASSUME StorageInvariant, Prepared, [StorageNext]_storageVars
             PROVE  Prepared'
  OBVIOUS
<1> USE DEF StorageInvariant
<1> DEFINE Elsewhere(c) ==
             \E t : /\ Open(c, t)
                    /\ t.stage \notin {"inserted", "chosen", "popped", "addressed", "deleting"}
<1>1. ASSUME NEW c \in Connection, Elsewhere(c), accounts' = accounts,
             bundles \subseteq bundles'
      PROVE  Prepared'
  BY <1>1, PreparedRests
<1>2. ASSUME NEW c \in Connection, MessageStep(c) PROVE Prepared'
  <2>1. CASE \E s \in Account, r \in Account : store_message(c, s, r)
    BY <2>1, ChecksPrepare
  <2>2. CASE commit_message(c) \/ commit_end(c) \/ \E m \in messages : delete_message(c, m)
    <3>1. Elsewhere(c) /\ UNCHANGED <<accounts, bundles>>
      BY <2>2, StageTypes DEF commit_message, commit_end, delete_message, Close, Open, keyVars
    <3> QED BY <1>1, <3>1
  <2> QED BY <1>2, <2>1, <2>2 DEF MessageStep
<1>3. ASSUME NEW c \in Connection, KeyStep(c) PROVE Prepared'
  <2>1. CASE \/ commit_bundle(c) \/ commit_prekeys(c) \/ commit_pop(c)
             \/ \E u \in Account : store_key_bundle(c, u)
             \/ \E u \in Account, n \in 0..MaxUpload : add_one_time_prekeys(c, u, n)
    <3>1. Elsewhere(c)
      BY <2>1, StageTypes DEF commit_bundle, commit_prekeys, commit_pop, store_key_bundle,
         add_one_time_prekeys, Close, Open
    <3>2. accounts' = accounts /\ bundles \subseteq bundles'
      BY <2>1 DEF commit_bundle, commit_prekeys, commit_pop, store_key_bundle,
         add_one_time_prekeys, keyVars
    <3> QED BY <1>1, <3>1, <3>2
  <2> QED BY <1>3, <2>1, ChecksPrepare DEF KeyStep
<1>4. ASSUME NEW c \in Connection, GroupMessageStep(c) PROVE Prepared'
  <2>1. CASE store_receipts(c) BY <2>1, ChecksPrepare
  <2>2. CASE \/ \E s \in Account : store_group_message(c, s)
             \/ \E m \in posts : revoke_group_message(c, m)
             \/ \E r \in receipts : record_group_receipt(c, r)
             \/ commit_group_message(c) \/ commit_revocation(c)
             \/ delete_acknowledged(c) \/ commit_receipt(c)
    <3>1. UNCHANGED <<accounts, bundles>>
      BY <2>2 DEF store_group_message, revoke_group_message, record_group_receipt,
         commit_group_message, commit_revocation, delete_acknowledged, commit_receipt, keyVars
    <3>2. Elsewhere(c)
      BY <2>2, StageTypes DEF store_group_message, revoke_group_message, record_group_receipt,
         commit_group_message, commit_revocation, delete_acknowledged, commit_receipt,
         Close, Open
    <3> QED BY <1>1, <3>1, <3>2
  <2> QED BY <1>4, <2>1, <2>2 DEF GroupMessageStep
<1>5. ASSUME NEW c \in Connection, AccountStep(c) PROVE Prepared'
  <2>1. CASE rollback(c)
    <3>1. Elsewhere(c) /\ UNCHANGED <<accounts, bundles>>
      BY <2>1, StageTypes DEF rollback, Close, Open, keyVars
    <3> QED BY <1>1, <3>1
  <2> QED BY <1>5, <2>1, ChecksPrepare, DeletionPrepares DEF AccountStep
<1>6. CASE UNCHANGED storageVars
  BY <1>6 DEF storageVars, Prepared, At
<1> QED BY <1>2, <1>3, <1>4, <1>5, <1>6 DEF StorageNext

\* What a statement does by itself is not seen.
LEMMA StatementsStutter ==
    ASSUME NEW c \in Connection,
           \/ \E s \in Account, r \in Account : store_message(c, s, r)
           \/ \E m \in messages : delete_message(c, m)
           \/ \E u \in Account : store_key_bundle(c, u) \/ choose_prekey(c, u)
           \/ \E u \in Account, n \in 0..MaxUpload : add_one_time_prekeys(c, u, n)
           \/ pop_one_time_prekey(c)
           \/ \E s \in Account : store_group_message(c, s)
           \/ store_receipts(c)
           \/ \E m \in posts : revoke_group_message(c, m)
           \/ \E r \in receipts : record_group_receipt(c, r)
           \/ delete_acknowledged(c)
           \/ \E u \in Account : delete_user(c, u)
           \/ rollback(c)
    PROVE  UNCHANGED Atomic!atomicVars
<1> USE DEF messageVars, keyVars, postVars, Atomic!atomicVars, Atomic!mailVars, Atomic!keyVars,
            Atomic!postVars
<1>1. CASE (\E s \in Account, r \in Account : store_message(c, s, r))
           \/ \E m \in messages : delete_message(c, m)
  BY <1>1 DEF store_message, delete_message
<1>2. CASE \/ \E u \in Account : store_key_bundle(c, u) \/ choose_prekey(c, u)
           \/ \E u \in Account, n \in 0..MaxUpload : add_one_time_prekeys(c, u, n)
           \/ pop_one_time_prekey(c)
  BY <1>2 DEF store_key_bundle, choose_prekey, add_one_time_prekeys, pop_one_time_prekey
<1>3. CASE \/ \E s \in Account : store_group_message(c, s)
           \/ store_receipts(c)
           \/ \E m \in posts : revoke_group_message(c, m)
           \/ \E r \in receipts : record_group_receipt(c, r)
           \/ delete_acknowledged(c)
  BY <1>3 DEF store_group_message, store_receipts, revoke_group_message,
     record_group_receipt, delete_acknowledged
<1>4. CASE (\E u \in Account : delete_user(c, u)) \/ rollback(c)
  BY <1>4 DEF delete_user, rollback
<1> QED BY <1>1, <1>2, <1>3, <1>4

\* A message is between two accounts that are there, and goes as it came.
LEMMA MessagesAtOnce ==
    ASSUME StorageInvariant, Prepared, NEW c \in Connection,
           commit_message(c) \/ commit_end(c)
    PROVE  Atomic!AtomicNext
<1> DEFINE row == conn[c].row
<1> USE DEF StorageInvariant
<1>1. CASE commit_message(c)
  <2>1. /\ At(c, "inserted") /\ messages' = messages \cup {row}
        /\ UNCHANGED <<accounts, ended, keyVars, postVars>>
    BY <1>1 DEF commit_message
  <2>2. row \in Message /\ row.sender # row.recipient BY <2>1, Stages DEF At, Prepared
  <2>3. Refers(c, row.sender) /\ Refers(c, row.recipient) BY <2>1 DEF Refers
  <2>4. {row.sender, row.recipient} \subseteq accounts
    BY <2>2, <2>3 DEF ReferencesHold, Message
  <2>5. ended[row.id] = 0 /\ \A m \in messages : m.id # row.id BY <2>1 DEF MessagesOnce
  <2>6. Atomic!Send(row)
    BY <2>1, <2>2, <2>4, <2>5 DEF Atomic!Send, Atomic!keyVars, Atomic!postVars, keyVars, postVars
  <2> QED BY <2>1, <2>6 DEF Atomic!AtomicNext
<1>2. CASE commit_end(c)
  <2>1. Atomic!End(row)
    BY <1>2 DEF commit_end, Atomic!End, Atomic!keyVars, Atomic!postVars, keyVars, postVars
  <2>2. row \in messages BY <1>2 DEF commit_end, MessagesOnce
  <2> QED BY <2>1, <2>2 DEF Atomic!AtomicNext
<1> QED BY <1>1, <1>2

\* The account of a bundle or a prekey is there, and so is the bundle of a
\* prekey that is handed out.
LEMMA KeysAtOnce ==
    ASSUME StorageInvariant, Prepared, NEW c \in Connection,
           commit_bundle(c) \/ commit_prekeys(c) \/ commit_pop(c)
    PROVE  Atomic!AtomicNext
<1> USE DEF StorageInvariant, Atomic!mailVars, Atomic!postVars, messageVars, postVars
<1>1. CASE commit_bundle(c)
  <2> DEFINE u == conn[c].user
  <2>1. At(c, "upserted") /\ u \in Account BY <1>1, Stages DEF commit_bundle, At
  <2>2. Refers(c, u) BY <2>1 DEF Refers, At
  <2>3. u \in accounts BY <2>1, <2>2 DEF ReferencesHold
  <2>4. Atomic!Publish(u) BY <1>1 DEF commit_bundle, Atomic!Publish
  <2> QED BY <2>3, <2>4 DEF Atomic!AtomicNext
<1>2. CASE commit_prekeys(c)
  <2> DEFINE u == conn[c].user
             ids == conn[c].ids
  <2>1. At(c, "uploaded") /\ u \in Account /\ ids \in SUBSET PrekeyId
    BY <1>2, Stages DEF commit_prekeys, At
  <2>2. Refers(c, u) BY <2>1 DEF Refers, At
  <2>3. u \in accounts BY <2>1, <2>2 DEF ReferencesHold
  <2>4. \A i \in ids : handedOut[i] = 0 /\ \A p \in prekeys : p.id # i
    BY <2>1 DEF PrekeysOnce
  <2>5. Atomic!Upload(u, ids) BY <1>2, <2>4 DEF commit_prekeys, Atomic!Upload
  <2> QED BY <2>1, <2>3, <2>5 DEF Atomic!AtomicNext
<1>3. CASE commit_pop(c)
  <2> DEFINE row == conn[c].row
  <2>1. At(c, "popped") /\ row \in prekeys BY <1>3 DEF commit_pop, PrekeysOnce
  <2>2. row.user \in accounts BY <2>1 DEF ReferencesHold, NothingOfDeletedAccounts
  <2>3. row.user \in bundles BY <2>1, <2>2 DEF Prepared, At
  <2>4. Atomic!Fetch(row) BY <1>3, <2>3 DEF commit_pop, Atomic!Fetch
  <2> QED BY <2>1, <2>4 DEF Atomic!AtomicNext
<1> QED BY <1>1, <1>2, <1>3

\* A post comes with a receipt for everybody else; who acknowledged it last takes
\* it away, or leaves it.
LEMMA PostsAtOnce ==
    ASSUME StorageInvariant, PostIdsOnce, Prepared, NEW c \in Connection,
           commit_group_message(c) \/ commit_revocation(c) \/ commit_receipt(c)
    PROVE  Atomic!AtomicNext
<1> DEFINE row == conn[c].row
<1> USE DEF StorageInvariant, Atomic!mailVars, Atomic!keyVars, messageVars, keyVars
<1>1. CASE commit_group_message(c)
  <2>1. At(c, "addressed") /\ row.sender \in Account
    BY <1>1, Stages DEF commit_group_message, At, Post
  <2>2. Refers(c, row.sender) BY <2>1 DEF Refers, At
  <2>3. row.sender \in accounts BY <2>1, <2>2 DEF ReferencesHold
  <2>4. \A n \in posts : n.id # row.id BY <2>1 DEF PostIdsOnce, At
  <2>5. conn[c].to = accounts \ {row.sender} BY <2>1 DEF Prepared
  <2>6. Atomic!PostToAll(row)
    BY <1>1, <2>3, <2>4, <2>5 DEF commit_group_message, Atomic!PostToAll
  <2>7. row \in posts' BY <1>1 DEF commit_group_message
  <2> QED BY <2>6, <2>7 DEF Atomic!AtomicNext
<1>2. CASE commit_revocation(c)
  <2>1. row \in posts BY <1>2 DEF commit_revocation, PostsOnce
  <2>2. Atomic!Withdraw(row)
    BY <1>2 DEF commit_revocation, Atomic!Withdraw, ReceiptsOf
  <2> QED BY <2>1, <2>2 DEF Atomic!AtomicNext
<1>3. CASE commit_receipt(c)
  <2> DEFINE gone == {m \in posts : At(c, "last") /\ m.id = row.post}
  <2>1. /\ At(c, "kept") \/ At(c, "last")
        /\ posts' = posts \ gone
        /\ receipts' = {r \in receipts \ {row} : \A m \in gone : m.id # r.post}
        /\ UNCHANGED <<accounts, messageVars, keyVars>>
    BY <1>3 DEF commit_receipt
  <2>2. row \in receipts BY <2>1 DEF PostsOnce, At, Acknowledging
  <2>3. ASSUME At(c, "kept") PROVE Atomic!Acknowledge(row)
    <3>1. gone = {} BY <2>3 DEF At
    <3>2. posts' = posts /\ receipts' = receipts \ {row} BY <2>1, <3>1
    <3> QED BY <2>1, <3>2 DEF Atomic!Acknowledge
  <2>4. ASSUME At(c, "last") PROVE Atomic!Acknowledge(row)
    <3>1. \A r \in receipts : r.post = row.post => r = row BY <2>4 DEF PostsOnce
    <3>2. receipts' = receipts \ {row} BY <2>1, <3>1
    <3>3. posts' = {m \in posts : m.id # row.post} BY <2>1, <2>4 DEF At
    <3>4. \A q \in receipts' : q.post # row.post BY <3>1, <3>2
    <3> QED BY <2>1, <3>2, <3>3, <3>4 DEF Atomic!Acknowledge
  <2>5. Atomic!Acknowledge(row) BY <2>1, <2>3, <2>4
  <2> QED BY <2>2, <2>5 DEF Atomic!AtomicNext
<1> QED BY <1>1, <1>2, <1>3

\* An account goes with all that is its own.
LEMMA DeletionAtOnce ==
    ASSUME StorageInvariant, Prepared, NEW c \in Connection, commit_deletion(c)
    PROVE  Atomic!AtomicNext
<1> DEFINE u == conn[c].user
           sent == {m \in posts : m.sender = u}
<1>1. /\ At(c, "deleting")
      /\ accounts' = accounts \ {u} /\ bundles' = bundles \ {u}
      /\ messages' = messages \ {m \in messages : u \in {m.sender, m.recipient}}
      /\ prekeys' = prekeys \ {p \in prekeys : p.user = u}
      /\ posts' = posts \ sent
      /\ receipts' = receipts \ {r \in receipts : r.user = u \/ \E m \in sent : r.post = m.id}
      /\ UNCHANGED <<ended, handedOut>>
  BY DEF commit_deletion
<1>2. posts \ posts' = sent BY <1>1
<1>3. receipts' = {r \in receipts : r.user # u /\ \A m \in posts \ posts' : r.post # m.id}
  BY <1>1, <1>2
<1>4. Atomic!DeleteAccount(u)
  <2>1. messages' = {m \in messages : u \notin {m.sender, m.recipient}} BY <1>1
  <2>2. prekeys' = {p \in prekeys : p.user # u} BY <1>1
  <2>3. posts' = {m \in posts : m.sender # u} BY <1>1
  <2> QED BY <1>1, <1>3, <2>1, <2>2, <2>3 DEF Atomic!DeleteAccount
<1>5. u \in accounts BY <1>1 DEF Prepared
<1> QED BY <1>4, <1>5 DEF Atomic!AtomicNext

LEMMA AtomicSteps ==
    StorageInvariant /\ PostsAwaited /\ Prepared /\ [StorageNext]_storageVars =>
      [Atomic!AtomicNext]_Atomic!atomicVars
<1> SUFFICES ASSUME StorageInvariant, PostsAwaited, Prepared, [StorageNext]_storageVars
             PROVE  Atomic!AtomicNext \/ UNCHANGED Atomic!atomicVars
  OBVIOUS
<1>1. ASSUME NEW c \in Connection, MessageStep(c)
      PROVE  Atomic!AtomicNext \/ UNCHANGED Atomic!atomicVars
  BY <1>1, StatementsStutter, MessagesAtOnce DEF MessageStep
<1>2. ASSUME NEW c \in Connection, KeyStep(c)
      PROVE  Atomic!AtomicNext \/ UNCHANGED Atomic!atomicVars
  BY <1>2, StatementsStutter, KeysAtOnce DEF KeyStep
<1>3. ASSUME NEW c \in Connection, GroupMessageStep(c)
      PROVE  Atomic!AtomicNext \/ UNCHANGED Atomic!atomicVars
  BY <1>3, StatementsStutter, PostsAtOnce DEF GroupMessageStep, PostsAwaited
<1>4. ASSUME NEW c \in Connection, AccountStep(c)
      PROVE  Atomic!AtomicNext \/ UNCHANGED Atomic!atomicVars
  BY <1>4, StatementsStutter, DeletionAtOnce DEF AccountStep
<1>5. CASE UNCHANGED storageVars
  BY <1>5 DEF storageVars, Atomic!atomicVars, Atomic!mailVars, Atomic!keyVars, Atomic!postVars
<1> QED BY <1>1, <1>2, <1>3, <1>4, <1>5 DEF StorageNext

\* The tables, as commits change them, could be those of a server that does each
\* request in one step: what checks of other statements, row locks and foreign
\* keys add up to (message.py, key_bundle.py, group.py and delete_user).
THEOREM StorageIsAtomic == StorageSpec => ImplementsAtomicStorage
<1>1. StorageInit => PostsAwaited /\ Prepared /\ Atomic!AtomicInit
  <2> SUFFICES ASSUME StorageInit PROVE PostsAwaited /\ Prepared /\ Atomic!AtomicInit
    OBVIOUS
  <2>1. Prepared
    <3>1. \A c \in Connection : conn[c] = Idle /\ Idle.stage = "idle"
      BY StageTypes DEF StorageInit
    <3> QED BY <3>1 DEF Prepared, At
  <2>2. Atomic!AtomicInit BY DEF StorageInit, Atomic!AtomicInit
  <2> QED BY <2>1, <2>2, AwaitedStarts
<1> QED BY <1>1, AwaitedStep, PreparedStep, AtomicSteps, StorageInvariantHolds, PTL
        DEF StorageSpec, ImplementsAtomicStorage, Atomic!AtomicSpec
-----------------------------------------------------------------------------
(* How far an inbox can go beyond its limit.                               *)

\* The connections that have inserted a message to u and not committed it.
OnTheWay(u) == {c \in Connection : At(c, "inserted") /\ conn[c].row.recipient = u}

SomeConnections == IsFiniteSet(Connection) /\ Connection # {}

\* Whoever inserts has seen room for one: all others together can only have
\* inserted one message each since.
Overrun ==
    /\ IsFiniteSet(messages)
    /\ \A u \in Account :
         Cardinality(Inbox(u)) + Cardinality(OnTheWay(u)) < InboxMax + Cardinality(Connection)

\* The sizes of which Overrun speaks.
LEMMA InboxSizes ==
    ASSUME SomeConnections, IsFiniteSet(messages), NEW u
    PROVE  /\ IsFiniteSet(Inbox(u)) /\ IsFiniteSet(OnTheWay(u))
           /\ Cardinality(Inbox(u)) \in Nat /\ Cardinality(OnTheWay(u)) \in Nat
           /\ Cardinality(OnTheWay(u)) <= Cardinality(Connection)
           /\ Cardinality(Connection) \in Nat /\ Cardinality(Connection) > 0
<1>1. Inbox(u) \subseteq messages /\ OnTheWay(u) \subseteq Connection
  BY DEF Inbox, OnTheWay
<1>2. IsFiniteSet(Inbox(u)) /\ IsFiniteSet(OnTheWay(u))
  BY <1>1, FS_Subset DEF SomeConnections
<1>3. Cardinality(OnTheWay(u)) <= Cardinality(Connection)
  BY <1>1, FS_Subset DEF SomeConnections
<1>4. Cardinality(Connection) # 0 BY FS_EmptySet DEF SomeConnections
<1> QED BY <1>2, <1>3, <1>4, FS_CardinalityType DEF SomeConnections

\* Neither rows that go nor connections that turn to something else count.
LEMMA OverrunRests ==
    ASSUME StorageTypes, Overrun, SomeConnections, NEW c \in Connection, NEW t, Open(c, t),
           t.stage # "inserted", messages' \subseteq messages
    PROVE  Overrun'
<1>1. conn'[c] = t /\ \A d \in Connection \ {c} : conn'[d] = conn[d]
  BY OneConnection
<1>2. IsFiniteSet(messages) /\ IsFiniteSet(messages') BY FS_Subset DEF Overrun
<1>3. ASSUME NEW u \in Account
      PROVE  Cardinality(Inbox(u)') + Cardinality(OnTheWay(u)')
               < InboxMax + Cardinality(Connection)
  <2>1. Inbox(u)' \subseteq Inbox(u) /\ OnTheWay(u)' \subseteq OnTheWay(u)
    BY <1>1 DEF Inbox, OnTheWay, At
  <2>2. /\ Cardinality(Inbox(u)') <= Cardinality(Inbox(u))
        /\ Cardinality(OnTheWay(u)') <= Cardinality(OnTheWay(u))
        /\ Cardinality(Inbox(u)') \in Nat /\ Cardinality(OnTheWay(u)') \in Nat
    BY <1>2, <2>1, InboxSizes, FS_Subset, FS_CardinalityType
  <2>3. Cardinality(Inbox(u)) + Cardinality(OnTheWay(u)) < InboxMax + Cardinality(Connection)
    BY DEF Overrun
  <2> QED BY <1>2, <2>2, <2>3, InboxSizes, StorageBoundsAssumption
<1> QED BY <1>2, <1>3 DEF Overrun

\* An insert finds the inbox below its limit, whatever is on its way.
LEMMA StoreMessageOverruns ==
    ASSUME StorageTypes, Overrun, SomeConnections, NEW c \in Connection,
           NEW s \in Account, NEW r \in Account, store_message(c, s, r)
    PROVE  Overrun'
<1> DEFINE t == [stage |-> "inserted",
                 row |-> [id |-> messageSeq + 1, sender |-> s, recipient |-> r]]
<1>1. /\ Open(c, t) /\ messages' = messages /\ At(c, "idle")
      /\ Cardinality(Inbox(r)) < InboxMax
  BY DEF store_message
<1>2. conn'[c] = t /\ \A d \in Connection \ {c} : conn'[d] = conn[d]
  BY <1>1, OneConnection
<1>3. IsFiniteSet(messages) BY DEF Overrun
<1>4. ASSUME NEW u \in Account
      PROVE  Cardinality(Inbox(u)') + Cardinality(OnTheWay(u)')
               < InboxMax + Cardinality(Connection)
  <2>1. Inbox(u)' = Inbox(u) BY <1>1 DEF Inbox
  <2>2. CASE u = r
    <3>1. OnTheWay(u)' \subseteq Connection BY DEF OnTheWay
    <3>2. /\ Cardinality(OnTheWay(u)') <= Cardinality(Connection)
          /\ Cardinality(OnTheWay(u)') \in Nat
      BY <3>1, FS_Subset, FS_CardinalityType DEF SomeConnections
    <3> QED BY <1>1, <1>3, <2>1, <2>2, <3>2, InboxSizes, StorageBoundsAssumption
  <2>3. CASE u # r
    <3>1. OnTheWay(u)' = OnTheWay(u) BY <1>1, <1>2, <2>3 DEF OnTheWay, At
    <3> QED BY <2>1, <3>1 DEF Overrun
  <2> QED BY <2>2, <2>3
<1> QED BY <1>1, <1>3, <1>4 DEF Overrun

\* A message that is committed is no longer on its way.
LEMMA CommitMessageOverruns ==
    ASSUME StorageTypes, Overrun, SomeConnections, NEW c \in Connection, commit_message(c)
    PROVE  Overrun'
<1> DEFINE row == conn[c].row
<1>1. Open(c, Idle) /\ At(c, "inserted") /\ messages' = messages \cup {row}
  BY DEF commit_message, Close, Open
<1>2. /\ conn'[c] = Idle /\ \A d \in Connection \ {c} : conn'[d] = conn[d]
      /\ Idle.stage = "idle"
  BY <1>1, OneConnection, StageTypes
<1>3. IsFiniteSet(messages) /\ IsFiniteSet(messages') BY <1>1, FS_AddElement DEF Overrun
<1>4. ASSUME NEW u \in Account
      PROVE  Cardinality(Inbox(u)') + Cardinality(OnTheWay(u)')
               < InboxMax + Cardinality(Connection)
  <2>1. Cardinality(Inbox(u)) + Cardinality(OnTheWay(u)) < InboxMax + Cardinality(Connection)
    BY DEF Overrun
  <2>2. CASE row.recipient = u
    <3>1. Inbox(u)' = Inbox(u) \cup {row} BY <1>1, <2>2 DEF Inbox
    <3>2. Cardinality(Inbox(u)') \in Nat /\ Cardinality(Inbox(u)') <= Cardinality(Inbox(u)) + 1
      <4>1. CASE row \in Inbox(u)
        <5>1. Inbox(u)' = Inbox(u) BY <3>1, <4>1
        <5> QED BY <1>3, <5>1, InboxSizes
      <4>2. CASE row \notin Inbox(u)
        <5>1. Cardinality(Inbox(u)') = Cardinality(Inbox(u)) + 1
          BY <1>3, <3>1, <4>2, InboxSizes, FS_AddElement
        <5> QED BY <1>3, <5>1, InboxSizes
      <4> QED BY <4>1, <4>2
    <3>3. c \in OnTheWay(u) /\ OnTheWay(u)' = OnTheWay(u) \ {c}
      BY <1>1, <1>2, <2>2 DEF OnTheWay, At
    <3>4. Cardinality(OnTheWay(u)') = Cardinality(OnTheWay(u)) - 1
      BY <1>3, <3>3, InboxSizes, FS_RemoveElement
    <3> QED BY <1>3, <2>1, <3>2, <3>4, InboxSizes, StorageBoundsAssumption
  <2>3. CASE row.recipient # u
    <3>1. Inbox(u)' = Inbox(u) /\ OnTheWay(u)' = OnTheWay(u)
      BY <1>1, <1>2, <2>3 DEF Inbox, OnTheWay, At
    <3> QED BY <2>1, <3>1
  <2> QED BY <2>2, <2>3
<1> QED BY <1>3, <1>4 DEF Overrun

\* As a predicate of states, which it has to be under [].
OverrunBounded == SomeConnections => Overrun

LEMMA OverrunStep ==
    StorageTypes /\ OverrunBounded /\ [StorageNext]_storageVars => OverrunBounded'
<1> SUFFICES ASSUME SomeConnections, Overrun, StorageTypes, [StorageNext]_storageVars
             PROVE  Overrun'
  BY DEF OverrunBounded
<1> DEFINE Elsewhere(c) == \E t : Open(c, t) /\ t.stage # "inserted"
<1>1. ASSUME NEW c \in Connection, Elsewhere(c), messages' \subseteq messages PROVE Overrun'
  BY <1>1, OverrunRests
<1>2. ASSUME NEW c \in Connection, MessageStep(c) PROVE Overrun'
  <2>1. CASE commit_end(c) \/ \E m \in messages : delete_message(c, m)
    <3>1. Elsewhere(c) /\ messages' \subseteq messages
      BY <2>1, StageTypes DEF commit_end, delete_message, Close, Open, messageVars
    <3> QED BY <1>1, <3>1
  <2> QED BY <1>2, <2>1, StoreMessageOverruns, CommitMessageOverruns DEF MessageStep
<1>3. ASSUME NEW c \in Connection, KeyStep(c) PROVE Overrun'
  <2>1. messages' = messages
    BY <1>3 DEF KeyStep, store_key_bundle, choose_prekey, commit_bundle,
       add_one_time_prekeys, commit_prekeys, pop_one_time_prekey, commit_pop, messageVars
  <2>2. CASE \/ commit_bundle(c) \/ commit_prekeys(c) \/ commit_pop(c)
             \/ \E u \in Account : store_key_bundle(c, u)
             \/ \E u \in Account, n \in 0..MaxUpload : add_one_time_prekeys(c, u, n)
    BY <1>1, <2>1, <2>2, StageTypes DEF commit_bundle, commit_prekeys, commit_pop,
       store_key_bundle, add_one_time_prekeys, Close, Open
  <2>3. CASE \E u \in Account : choose_prekey(c, u)
    <3>1. PICK u \in Account : choose_prekey(c, u) BY <2>3
    <3>2. PICK p \in FirstPrekeys(u) : Open(c, [stage |-> "chosen", row |-> p])
      BY <3>1 DEF choose_prekey
    <3>3. Elsewhere(c) BY <3>2
    <3> QED BY <1>1, <2>1, <3>3
  <2>4. CASE pop_one_time_prekey(c)
    <3>1. conn[c] \in Transaction BY DEF StorageTypes
    <3>2. At(c, "chosen") => [conn[c] EXCEPT !.stage = "popped"].stage = "popped"
      BY <3>1 DEF At, Transaction, Idle
    <3>3. Elsewhere(c) BY <2>4, <3>2, StageTypes DEF pop_one_time_prekey, Close, Open
    <3> QED BY <1>1, <2>1, <3>3
  <2> QED BY <1>3, <2>2, <2>3, <2>4 DEF KeyStep
<1>4. ASSUME NEW c \in Connection, GroupMessageStep(c) PROVE Overrun'
  <2>1. messages' = messages
    BY <1>4 DEF GroupMessageStep, store_group_message, store_receipts, commit_group_message,
       revoke_group_message, commit_revocation, record_group_receipt, delete_acknowledged,
       commit_receipt, messageVars
  <2>2. Elsewhere(c)
    BY <1>4, StageTypes DEF GroupMessageStep, store_group_message, store_receipts,
       commit_group_message, revoke_group_message, commit_revocation, record_group_receipt,
       delete_acknowledged, commit_receipt, Close, Open
  <2> QED BY <1>1, <2>1, <2>2
<1>5. ASSUME NEW c \in Connection, AccountStep(c) PROVE Overrun'
  <2>1. messages' \subseteq messages
    BY <1>5 DEF AccountStep, delete_user, commit_deletion, rollback, messageVars
  <2>2. Elsewhere(c)
    BY <1>5, StageTypes DEF AccountStep, delete_user, commit_deletion, rollback, Close, Open
  <2> QED BY <1>1, <2>1, <2>2
<1>6. CASE UNCHANGED storageVars
  BY <1>6 DEF storageVars, Overrun, Inbox, OnTheWay, At
<1> QED BY <1>2, <1>3, <1>4, <1>5, <1>6 DEF StorageNext

LEMMA OverrunHolds == StorageSpec => []OverrunBounded
<1>1. StorageInit => OverrunBounded
  <2> SUFFICES ASSUME StorageInit, SomeConnections PROVE Overrun BY DEF OverrunBounded
  <2>1. messages = {} /\ \A c \in Connection : conn[c] = Idle /\ Idle.stage = "idle"
    BY StageTypes DEF StorageInit
  <2>2. \A u \in Account : Inbox(u) = {} /\ OnTheWay(u) = {}
    BY <2>1 DEF Inbox, OnTheWay, At
  <2>3. IsFiniteSet({}) /\ Cardinality({}) = 0 BY FS_EmptySet
  <2>4. Cardinality(Connection) \in Nat /\ Cardinality(Connection) > 0
    BY <2>1, <2>3, InboxSizes
  <2> QED BY <2>1, <2>2, <2>3, <2>4, StorageBoundsAssumption DEF Overrun
<1>2. StorageInvariant => StorageTypes BY DEF StorageInvariant
<1> QED BY <1>1, <1>2, OverrunStep, StorageInvariantHolds, PTL DEF StorageSpec

\* Senders on n connections take an inbox past inbox_max_messages by at most
\* n - 1 (the count in store_message's INSERT ... SELECT, message.py 37).
THEOREM InboxOverrunBounded ==
    StorageSpec => [](SomeConnections =>
      \A u \in Account : Cardinality(Inbox(u)) <= InboxMax + Cardinality(Connection) - 1)
<1>1. SomeConnections /\ OverrunBounded =>
        \A u \in Account : Cardinality(Inbox(u)) <= InboxMax + Cardinality(Connection) - 1
  BY InboxSizes, StorageBoundsAssumption DEF Overrun, OverrunBounded
<1> QED BY <1>1, OverrunHolds, PTL

\* One connection keeps to inbox_max_messages: so does one process, whose
\* send_message runs from the count to the commit without awaiting.
THEOREM OneConnectionKeepsLimit ==
    StorageSpec => []((\E c : Connection = {c}) => InboxWithinLimit)
<1>1. (\E c : Connection = {c}) => SomeConnections /\ Cardinality(Connection) = 1
  BY FS_Singleton DEF SomeConnections
<1>2. SomeConnections /\ Cardinality(Connection) = 1 /\ OverrunBounded => InboxWithinLimit
  BY InboxSizes, StorageBoundsAssumption DEF Overrun, OverrunBounded, InboxWithinLimit
<1> QED BY <1>1, <1>2, OverrunHolds, PTL
=============================================================================
