------------------------------- MODULE LcpFfi -------------------------------
(***************************************************************************)
(* The C interface (crates/plugin/src/ffi.rs) as several threads may call  *)
(* it: what a call answers, what it leaves of its output, and LAST_ERROR,  *)
(* the one place for messages.  The lock is held to clear or to set it and *)
(* never in between, and a pointer to a message outlives the lock.         *)
(***************************************************************************)
EXTENDS Integers, Sequences

CONSTANTS
    Threads,
    MaxCalls,   \* bound on the calls of each thread
    FaultSets   \* what can be wrong with one call

VARIABLES
    LAST_ERROR, \* the message kept, if any
    stage,      \* how far each thread is with its call
    request,    \* its call: the function, and what is wrong
    code,       \* what it returned
    output,     \* what is at the call's output path
    pointer,    \* what lcp_get_error returned
    calls,      \* how many calls it has made
    alone,      \* no other call ran since this one began
    before,     \* the message kept when this one began
    since       \* what other calls did since lcp_get_error returned

vars == << LAST_ERROR, stage, request, code, output, pointer, calls, alone, before, since >>
history == << alone, before, since >>

(***************************************************************************)
(* What can be wrong with a call, in the order the code finds it, and the  *)
(* code it returns then.  To lcp_is_encrypted a publication without a      *)
(* license is no error.                                                    *)
(***************************************************************************)
IsEncryptedChecks == << "epub_path is null", "epub_path is not UTF-8", "not an EPUB" >>

\* A profile is named in its message; one with a NUL cannot be.
DecryptChecks ==
    << "epub_path is null", "output_path is null", "passphrase is null",
       "epub_path is not UTF-8", "output_path is not UTF-8", "passphrase is not UTF-8",
       "not an EPUB", "not licensed", "unsupported profile",
       "unsupported profile with a NUL", "wrong passphrase", "bad content key",
       "cannot create" >>

\* Mutant: what ZipWriter::finish says is not looked at.
WriteChecksButFinish == << "cannot write" >>

WriteChecks == << "cannot write", "cannot finish" >>

\* Mutant: a code the header does not list.
CodeUndocumented(fault) == IF fault = "cannot finish" THEN 3 ELSE -1

CodeOf(fault) ==
    CASE fault = "wrong passphrase" -> 1
      [] fault \in {"not licensed", "unsupported profile",
                    "unsupported profile with a NUL"} -> 2
      [] OTHER -> -1

ChecksOf(function) ==
    IF function = "lcp_is_encrypted" THEN IsEncryptedChecks ELSE DecryptChecks

Functions == {"lcp_is_encrypted", "lcp_decrypt_epub"}
SeqFaults(checks) == {checks[i] : i \in DOMAIN checks}
WriteFaults == {"cannot write", "cannot finish"}
Faults == SeqFaults(DecryptChecks) \cup WriteFaults

ASSUME FfiAssumption == MaxCalls \in Nat /\ FaultSets \subseteq SUBSET Faults

Requests == [function: Functions, faults: FaultSets]
Nothing == [function |-> "none", faults |-> {}]

Failing(checks, faults) == {i \in DOMAIN checks : checks[i] \in faults}

First(checks, faults) ==
    {i \in Failing(checks, faults) : \A j \in Failing(checks, faults) : i <= j}

----------------------------------------------------------------------------
\* A message is one allocation: it lives while LAST_ERROR holds it.
Message(t, n, fault) == [thread |-> t, call |-> n, text |-> fault]
Messages == [thread: Threads, call: 1..MaxCalls, text: Faults]
NoMessage == [text |-> "none"]

Stages == {"idle", "begun", "writing", "returned", "told"}
Running == {"begun", "writing"}

TypeOK ==
    /\ LAST_ERROR \in Messages \cup {NoMessage}
    /\ stage \in [Threads -> Stages]
    /\ request \in [Threads -> Requests \cup {Nothing}]
    /\ code \in [Threads -> {-1, 0, 1, 2}]
    /\ output \in [Threads -> {"old", "part", "whole"}]
    /\ pointer \in [Threads -> Messages \cup {NoMessage}]
    /\ calls \in [Threads -> 0..MaxCalls]
    /\ alone \in [Threads -> BOOLEAN]
    /\ before \in [Threads -> Messages \cup {NoMessage}]
    /\ since \in [Threads -> {"nothing", "running", "begun"}]
    /\ \A t \in Threads : stage[t] # "idle" => calls[t] > 0 /\ request[t] \in Requests

Init ==
    /\ LAST_ERROR = NoMessage
    /\ stage = [t \in Threads |-> "idle"]
    /\ request = [t \in Threads |-> Nothing]
    /\ code = [t \in Threads |-> 0]
    /\ output = [t \in Threads |-> "old"]
    /\ pointer = [t \in Threads |-> NoMessage]
    /\ calls = [t \in Threads |-> 0]
    /\ alone = [t \in Threads |-> TRUE]
    /\ before = [t \in Threads |-> NoMessage]
    /\ since = [t \in Threads |-> "nothing"]

\* Mutant: only lcp_decrypt_epub clears the last message.
ClearErrorToDecrypt(r) ==
    LAST_ERROR' = IF r.function = "lcp_decrypt_epub" THEN NoMessage ELSE LAST_ERROR

clear_error(r) == LAST_ERROR' = NoMessage

set_error(t, fault) ==
    LAST_ERROR' = IF fault = "unsupported profile with a NUL" THEN NoMessage
                  ELSE Message(t, calls[t], fault)

----------------------------------------------------------------------------
OthersRun(t) == \E v \in Threads \ {t} : stage[v] \in Running

\* A call begins, for an output path of its own.
Begin(t, r) ==
    /\ stage[t] = "idle"
    /\ calls[t] < MaxCalls
    /\ clear_error(r)
    /\ stage' = [stage EXCEPT ![t] = "begun"]
    /\ request' = [request EXCEPT ![t] = r]
    /\ calls' = [calls EXCEPT ![t] = @ + 1]
    /\ alone' = [u \in Threads |-> u = t /\ ~ OthersRun(t)]
    /\ before' = [before EXCEPT ![t] = LAST_ERROR]
    /\ since' = [u \in Threads |-> IF stage[u] = "told" THEN "begun" ELSE "nothing"]
    /\ UNCHANGED << code, output, pointer >>

Return(t, c) ==
    /\ stage' = [stage EXCEPT ![t] = "returned"]
    /\ code' = [code EXCEPT ![t] = c]
    /\ UNCHANGED << request, pointer, calls, history >>

\* A call that finds something wrong says what and returns.
Fail(t, checks) ==
    \E i \in First(checks, request[t].faults) :
        /\ set_error(t, checks[i])
        /\ Return(t, CodeOf(checks[i]))
        /\ UNCHANGED output

Refuse(t) ==
    /\ stage[t] = "begun"
    /\ Fail(t, ChecksOf(request[t].function))

Accepted(t) ==
    /\ stage[t] = "begun"
    /\ Failing(ChecksOf(request[t].function), request[t].faults) = {}

lcp_is_encrypted(t) ==
    /\ Accepted(t)
    /\ request[t].function = "lcp_is_encrypted"
    /\ Return(t, IF "not licensed" \in request[t].faults THEN 0 ELSE 1)
    /\ UNCHANGED << LAST_ERROR, output >>

\* create_decrypted_epub begins with File::create.
Create(t) ==
    /\ Accepted(t)
    /\ request[t].function = "lcp_decrypt_epub"
    /\ stage' = [stage EXCEPT ![t] = "writing"]
    /\ output' = [output EXCEPT ![t] = "part"]
    /\ UNCHANGED << LAST_ERROR, request, code, pointer, calls, history >>

FailToWrite(t) ==
    /\ stage[t] = "writing"
    /\ Fail(t, WriteChecks)

Finish(t) ==
    /\ stage[t] = "writing"
    /\ Failing(WriteChecks, request[t].faults) = {}
    /\ output' = [output EXCEPT
          ![t] = IF request[t].faults \cap WriteFaults = {} THEN "whole" ELSE @]
    /\ Return(t, 0)
    /\ UNCHANGED LAST_ERROR

\* The lock is released before the caller reads what the pointer points to.
lcp_get_error(t) ==
    /\ stage[t] = "returned"
    /\ stage' = [stage EXCEPT ![t] = "told"]
    /\ pointer' = [pointer EXCEPT ![t] = LAST_ERROR]
    /\ since' = [since EXCEPT ![t] = IF OthersRun(t) THEN "running" ELSE "nothing"]
    /\ UNCHANGED << LAST_ERROR, request, code, output, calls, alone, before >>

\* The caller has read the message, or never asks.
Done(t) ==
    /\ stage[t] \in {"returned", "told"}
    /\ stage' = [stage EXCEPT ![t] = "idle"]
    /\ request' = [request EXCEPT ![t] = Nothing]
    /\ code' = [code EXCEPT ![t] = 0]
    /\ output' = [output EXCEPT ![t] = "old"]
    /\ pointer' = [pointer EXCEPT ![t] = NoMessage]
    /\ before' = [before EXCEPT ![t] = NoMessage]
    /\ since' = [since EXCEPT ![t] = "nothing"]
    /\ UNCHANGED << LAST_ERROR, calls, alone >>

Step(t) ==
    \/ \E r \in Requests : Begin(t, r)
    \/ Refuse(t) \/ lcp_is_encrypted(t) \/ Create(t) \/ FailToWrite(t) \/ Finish(t)
    \/ lcp_get_error(t) \/ Done(t)

Next == \E t \in Threads : Step(t)

Spec == Init /\ [][Next]_vars

----------------------------------------------------------------------------
(***************************************************************************)
(* Properties.                                                             *)
(***************************************************************************)
Returned(t) == stage[t] \in {"returned", "told"}

\* The call failed, by what ffi.rs:45 and ffi.rs:91 say of the codes.
Failed(t) ==
    code[t] = -1 \/ (request[t].function = "lcp_decrypt_epub" /\ code[t] # 0)

\* The message is this call's, or it is lost: a profile with a NUL cannot be in it.
ThisCalls(t, m) ==
    IF Failed(t) /\ m # NoMessage
    THEN m.thread = t /\ m.call = calls[t] /\ m.text \in request[t].faults
    ELSE m = NoMessage /\ (Failed(t) => "unsupported profile with a NUL" \in request[t].faults)

\* What lcp_get_error tells a caller.  A call that overlaps no other gets its own
\* message or NULL; one that overlaps others may get theirs, and never one that was
\* kept before it began.  What the pointer points to lives as long as no other call
\* runs (ffi.rs:17-30, 234).
ErrorTellsThisCall ==
    \A t \in Threads : stage[t] = "told" =>
        /\ alone[t] => ThisCalls(t, pointer[t])
        /\ pointer[t] # NoMessage => pointer[t] # before[t]
        /\ since[t] = "nothing" => pointer[t] = LAST_ERROR

\* "A pointer to a null-terminated error string, or NULL if no error occurred.  The
\* string is valid until the next call to any lcp_* function" (ffi.rs:232): whoever
\* asks after a call that failed holds a message, and it lives until a call begins.
ErrorAsDocumented ==
    \A t \in Threads : stage[t] = "told" /\ Failed(t) =>
        /\ pointer[t] # NoMessage
        /\ since[t] # "begun" => pointer[t] = LAST_ERROR

\* What lcp_decrypt_epub returns says what is at the call's output path: 0 that all of
\* it is there, 1 and 2 that nothing was touched.  The plugin takes any file it finds
\* there for a decryption (main.lua:222).
CodeTellsOutput ==
    \A t \in Threads : Returned(t) /\ request[t].function = "lcp_decrypt_epub" =>
        /\ code[t] = 0 <=> output[t] = "whole"
        /\ code[t] \in {1, 2} => output[t] = "old"
=============================================================================
