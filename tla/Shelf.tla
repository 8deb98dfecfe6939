------------------------------- MODULE Shelf -------------------------------
(***************************************************************************)
(* What encrypt_epub, encrypt_epub_from_bytes and decrypt_epub             *)
(* (crates/lcp-core/src/lib.rs) promise, seen from outside: a shelf of     *)
(* publications, each in clear or protected, that whole operations change. *)
(* An operation takes what its input holds when it is called, and either   *)
(* puts its result on the shelf at once or gives up; LcpShelf shows that   *)
(* the entry by entry runs of LcpCore do no more than this.                *)
(***************************************************************************)
CONSTANTS
    Paths,      \* places on the shelf
    Keys,       \* content keys
    Users       \* user keys, one for each passphrase and profile

VARIABLES
    shelf,      \* the publications at each path: one, or none that can be read
    issued,     \* licenses handed out apart from any publication
    work        \* the operation in progress

vars == << shelf, issued, work >>

(***************************************************************************)
(* A publication is a record.  raw is the book as it lies there; seen has  *)
(* the content keys that unlock every resource listed as enciphered and,   *)
(* for each, the book a reading system with that key sees; licenses is     *)
(* what is embedded, one or none.  A license grants a content key to       *)
(* whoever has its user key.                                               *)
(***************************************************************************)
Idle == [does |-> "nothing"]

Init == work = Idle /\ issued = {}

----------------------------------------------------------------------------
\* All that changes on the shelf is what is at `out'.
Replaced(out, there) ==
    \A p \in Paths : shelf'[p] = IF p = out THEN there ELSE shelf[p]

\* What is in the input will be protected under a content key for some user, and
\* a license for it be embedded or handed out.
BeginProtect(in, out) ==
    \E pub \in shelf[in] :
        /\ work' \in [does: {"protect"}, out: {out}, key: Keys, user: Users,
                      book: {pub.raw}, embeds: BOOLEAN]
        /\ IF work'.embeds THEN Replaced(out, {}) ELSE UNCHANGED shelf
        /\ UNCHANGED issued

\* A license gets out what the content key it grants unlocks, and nothing else does.
BeginUnprotect(in, out) ==
    \E pub \in shelf[in] : \E license \in issued \cup pub.licenses :
        /\ work' = [does |-> "unprotect", out |-> out,
                    books |-> {pub.seen[k] : k \in DOMAIN pub.seen \cap {license.key}}]
        /\ Replaced(out, {})
        /\ UNCHANGED issued

\* The result shows, to a reading system with the key, the book that was put in;
\* whoever has the passphrase can have the key.  Credentials that do not load
\* lose the license that was to be handed out.
FinishProtect ==
    /\ work.does = "protect"
    /\ LET grant == [key |-> work.key, user |-> work.user] IN
       /\ shelf'[work.out] # {}
       /\ \A pub \in shelf'[work.out] :
             /\ work.key \in DOMAIN pub.seen
             /\ pub.seen[work.key] = work.book
             /\ pub.licenses = IF work.embeds THEN {grant} ELSE {}
       /\ \/ UNCHANGED issued
          \/ ~ work.embeds /\ issued' = issued \cup {grant}
    /\ Replaced(work.out, shelf'[work.out])

\* The result is the book in clear, if the license's key unlocked one.
FinishUnprotect ==
    /\ work.does = "unprotect"
    /\ shelf'[work.out] # {}
    /\ \A pub \in shelf'[work.out] : pub.licenses = {} /\ work.books \subseteq {pub.raw}
    /\ Replaced(work.out, shelf'[work.out])
    /\ UNCHANGED issued

\* Whatever an operation that failed or was killed leaves carries no license (one
\* that failed with its result complete is one that finished).
GiveUp ==
    /\ \/ \A pub \in shelf'[work.out] : pub.licenses = {}
       \/ UNCHANGED shelf
    /\ Replaced(work.out, shelf'[work.out])
    /\ UNCHANGED issued

Next ==
    \/ work = Idle /\ \E in, out \in Paths : BeginProtect(in, out) \/ BeginUnprotect(in, out)
    \/ work # Idle /\ work' = Idle /\ (FinishProtect \/ FinishUnprotect \/ GiveUp)

Spec == Init /\ [][Next]_vars

----------------------------------------------------------------------------
\* Whoever holds the passphrase of a publication's license can read all of it:
\* the content key the license grants opens every resource listed.
LicensedOpens ==
    \A p \in Paths : \A pub \in shelf[p] : \A l \in pub.licenses : l.key \in DOMAIN pub.seen
=============================================================================
