--------------------------- MODULE InMemoryCache ---------------------------
(***************************************************************************)
(* The dictionary behind the two storing backends (cache.py).  Handler     *)
(* threads share it and no lock guards it: reading an entry, deleting one  *)
(* and putting one are each a single atomic step of the interpreter, and   *)
(* get, which reads and then may delete, is two.  The operators below are  *)
(* those steps; Gateway says when a thread takes them.                     *)
(***************************************************************************)
EXTENDS CachePolicy

VARIABLE entries   \* InMemoryCache._entries: key -> Entry

Entries == [materialized_at : Nat, expires_at : Nat \cup {None}, exact : BOOLEAN]

EntriesTypeOK == /\ DOMAIN entries \subseteq CacheKeys
                 /\ entries \in [DOMAIN entries -> Entries]

EntriesInit == entries = [k \in {} |-> None]

ExpiresAt(now, max_age) == IF max_age = None THEN None ELSE now + max_age

Present(k) == k \in DOMAIN entries

\* Mutant: state is still used at the instant its bound is reached.
ExpiredAfter(entry, now) == entry.expires_at # None /\ now > entry.expires_at

Expired(entry, now) == entry.expires_at # None /\ now >= entry.expires_at

\* What the read in get finds: nothing, an entry to delete, or one to use.
Absent(k) == ~Present(k)
Stale(k, now) == Present(k) /\ Expired(entries[k], now)
Usable(k, now) == Present(k) /\ ~Expired(entries[k], now)

\* Mutant: whatever has a deadline goes with the entry that met its own.
DeleteAged(k) == entries' = [j \in {i \in DOMAIN entries \ {k} : entries[i].expires_at = None}
                               |-> entries[j]]

\* del self._entries[key]; it raises KeyError unless Present(k).
Delete(k) == entries' = [j \in DOMAIN entries \ {k} |-> entries[j]]

Put(k, now, max_age, exact) ==
    entries' = [j \in DOMAIN entries \cup {k} |->
                  IF j = k THEN [materialized_at |-> now,
                                 expires_at |-> ExpiresAt(now, max_age),
                                 exact |-> exact]
                  ELSE entries[j]]
=============================================================================
