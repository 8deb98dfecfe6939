---------------------------- MODULE ShelfProofs ----------------------------
(***************************************************************************)
(* What the whole operations of Shelf keep, for any paths, keys and users. *)
(***************************************************************************)
EXTENDS Shelf, TLAPS

\* A path that an operation leaves alone keeps what is there.
LEMMA ReplacedKeeps ==
    ASSUME NEW out, NEW there, Replaced(out, there), LicensedOpens,
           \A pub \in there : \A l \in pub.licenses : l.key \in DOMAIN pub.seen
    PROVE  LicensedOpens'
<1>. SUFFICES ASSUME NEW p \in Paths, NEW pub \in shelf'[p], NEW l \in pub.licenses
              PROVE  l.key \in DOMAIN pub.seen
    BY DEF LicensedOpens
<1>1. CASE p = out
    BY <1>1 DEF Replaced
<1>2. CASE p # out
    BY <1>2 DEF Replaced, LicensedOpens
<1>. QED  BY <1>1, <1>2

\* Protecting ends in a license for the key it used, and everything else ends without
\* a license or changes nothing.
LEMMA StepKeeps == LicensedOpens /\ [Next]_vars => LicensedOpens'
<1>. SUFFICES ASSUME LicensedOpens, [Next]_vars PROVE LicensedOpens'
    OBVIOUS
<1>1. CASE UNCHANGED shelf
    BY <1>1 DEF LicensedOpens
<1>2. ASSUME NEW in \in Paths, NEW out \in Paths, BeginProtect(in, out)
      PROVE  LicensedOpens'
    BY <1>1, <1>2, ReplacedKeeps DEF BeginProtect
<1>3. ASSUME NEW in \in Paths, NEW out \in Paths, BeginUnprotect(in, out)
      PROVE  LicensedOpens'
    BY <1>3, ReplacedKeeps DEF BeginUnprotect
<1>4. CASE FinishProtect
  <2>. DEFINE there == shelf'[work.out]
  <2>1. \A pub \in there : \A l \in pub.licenses : l.key \in DOMAIN pub.seen
      BY <1>4 DEF FinishProtect
  <2>2. Replaced(work.out, there)
      BY <1>4 DEF FinishProtect
  <2>. QED  BY <2>1, <2>2, ReplacedKeeps
<1>5. CASE FinishUnprotect
    BY <1>5, ReplacedKeeps DEF FinishUnprotect
<1>6. CASE GiveUp
  <2>1. CASE \A pub \in shelf'[work.out] : pub.licenses = {}
      BY <1>6, <2>1, ReplacedKeeps DEF GiveUp
  <2>. QED  BY <1>1, <1>6, <2>1 DEF GiveUp
<1>. QED  BY <1>1, <1>2, <1>3, <1>4, <1>5, <1>6 DEF Next, vars

\* On a shelf where every license opens its publication, every license always does,
\* whatever operations are begun, fail and are killed (lib.rs:52-105, 247-287): the
\* promise to readers that LcpCore, which implements Shelf, inherits.
THEOREM LicensedAlwaysOpens == LicensedOpens /\ Spec => []LicensedOpens
<1>1. LicensedOpens /\ [Next]_vars => LicensedOpens'
    BY StepKeeps
<1>. QED  BY <1>1, PTL DEF Spec
=============================================================================
