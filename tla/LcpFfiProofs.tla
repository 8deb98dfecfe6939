---------------------------- MODULE LcpFfiProofs ----------------------------
(***************************************************************************)
(* What LcpFfi promises, for any threads, calls and faults.                *)
(***************************************************************************)
EXTENDS LcpFfi, TLAPS

LEMMA WriteCheckFaults ==
    /\ \A i \in DOMAIN WriteChecks : WriteChecks[i] \in WriteFaults
    /\ \A fault \in WriteFaults : \E i \in DOMAIN WriteChecks : WriteChecks[i] = fault
<1>1. DOMAIN WriteChecks = {1, 2}
    BY DEF WriteChecks
<1>2. WriteChecks[1] = "cannot write" /\ WriteChecks[2] = "cannot finish"
    BY DEF WriteChecks
<1>. QED  BY <1>1, <1>2 DEF WriteFaults

LEMMA CodeType ==
    /\ \A fault : CodeOf(fault) \in {-1, 1, 2}
    /\ \A fault \in WriteFaults : CodeOf(fault) = -1
BY DEF CodeOf, WriteFaults

LEMMA MessageType ==
    ASSUME NEW t \in Threads, NEW n \in 1..MaxCalls, NEW fault \in Faults
    PROVE  /\ Message(t, n, fault) \in Messages /\ Message(t, n, fault) # NoMessage
           /\ Message(t, n, fault).thread = t /\ Message(t, n, fault).call = n
           /\ Message(t, n, fault).text = fault
BY DEF Message, Messages, NoMessage

----------------------------------------------------------------------------
(***************************************************************************)
(* The inductive invariant.                                                *)
(***************************************************************************)
\* While a call is alone LAST_ERROR is empty until it fails, and its message after.
AloneHolds ==
    \A t \in Threads : alone[t] /\ stage[t] # "idle" =>
        /\ \A u \in Threads \ {t} : stage[u] \notin Running
        /\ stage[t] \in Running => LAST_ERROR = NoMessage
        /\ Returned(t) => ThisCalls(t, LAST_ERROR)
        /\ stage[t] = "told" => pointer[t] = LAST_ERROR

\* A message is of a call that its thread has made, and not of one that still runs.
Past(m) ==
    m # NoMessage =>
        /\ m.call <= calls[m.thread]
        /\ stage[m.thread] \in Running => m.call < calls[m.thread]

\* No message that was kept when a call began comes back while it lasts.
MessagesPass ==
    /\ Past(LAST_ERROR)
    /\ \A t \in Threads :
          /\ Past(before[t])
          /\ stage[t] # "idle" /\ LAST_ERROR # NoMessage => LAST_ERROR # before[t]
          /\ stage[t] = "told" /\ pointer[t] # NoMessage => pointer[t] # before[t]
          /\ stage[t] = "told" /\ since[t] = "nothing" =>
                 /\ pointer[t] = LAST_ERROR
                 /\ ~ OthersRun(t)

OutputFollows ==
    \A t \in Threads :
        /\ stage[t] \in {"idle", "begun"} => output[t] = "old"
        /\ stage[t] = "writing" =>
               output[t] = "part" /\ request[t].function = "lcp_decrypt_epub"

IInv == TypeOK /\ AloneHolds /\ MessagesPass /\ OutputFollows /\ CodeTellsOutput

LEMMA InitIInv == Init => IInv
<1>. SUFFICES ASSUME Init PROVE IInv
    OBVIOUS
<1>1. TypeOK
    BY FfiAssumption DEF Init, TypeOK, Stages
<1>. QED
    BY <1>1 DEF Init, IInv, AloneHolds, MessagesPass, Past, OutputFollows, CodeTellsOutput,
        Returned

----------------------------------------------------------------------------
LEMMA BeginKeeps ==
    ASSUME IInv, NEW t \in Threads, NEW r \in Requests, Begin(t, r)
    PROVE  IInv'
<1>. USE DEF IInv
<1>1. /\ stage[t] = "idle" /\ calls[t] < MaxCalls /\ LAST_ERROR' = NoMessage
      /\ stage' = [stage EXCEPT ![t] = "begun"]
      /\ request' = [request EXCEPT ![t] = r]
      /\ calls' = [calls EXCEPT ![t] = calls[t] + 1]
      /\ alone' = [u \in Threads |-> u = t /\ ~ OthersRun(t)]
      /\ before' = [before EXCEPT ![t] = LAST_ERROR]
      /\ since' = [u \in Threads |-> IF stage[u] = "told" THEN "begun" ELSE "nothing"]
      /\ UNCHANGED << code, output, pointer >>
    BY DEF Begin, clear_error
<1>2. calls[t] + 1 \in 1..MaxCalls
    BY <1>1, FfiAssumption DEF TypeOK
<1>3. TypeOK'
  <2>1. stage' \in [Threads -> Stages] /\ request' \in [Threads -> Requests \cup {Nothing}]
      BY <1>1 DEF TypeOK, Stages
  <2>2. calls' \in [Threads -> 0..MaxCalls]
      BY <1>1, <1>2, FfiAssumption DEF TypeOK
  <2>3. \A u \in Threads : stage'[u] # "idle" => calls'[u] > 0 /\ request'[u] \in Requests
      BY <1>1, <1>2 DEF TypeOK
  <2>4. /\ alone' \in [Threads -> BOOLEAN]
        /\ before' \in [Threads -> Messages \cup {NoMessage}]
        /\ since' \in [Threads -> {"nothing", "running", "begun"}]
      BY <1>1 DEF TypeOK
  <2>. QED  BY <1>1, <2>1, <2>2, <2>3, <2>4 DEF TypeOK
<1>4. AloneHolds'
    BY <1>1 DEF AloneHolds, OthersRun, Returned, Running, TypeOK
<1>5. OutputFollows'
    BY <1>1 DEF OutputFollows, TypeOK
<1>6. CodeTellsOutput'
    BY <1>1 DEF CodeTellsOutput, Returned, TypeOK
<1>7. MessagesPass'
  <2>1. ASSUME NEW m \in Messages \cup {NoMessage}, Past(m) PROVE Past(m)'
    <3>. SUFFICES ASSUME m # NoMessage
                  PROVE  /\ m.call <= calls'[m.thread]
                         /\ stage'[m.thread] \in Running => m.call < calls'[m.thread]
        BY DEF Past
    <3>1. m.thread \in Threads /\ m.call \in Nat /\ calls[m.thread] \in Nat
        BY FfiAssumption DEF Messages, TypeOK
    <3>2. CASE m.thread = t
        BY <1>1, <2>1, <3>1, <3>2 DEF Past, TypeOK
    <3>3. CASE m.thread # t
        BY <1>1, <2>1, <3>1, <3>3 DEF Past, TypeOK
    <3>. QED  BY <3>2, <3>3
  <2>2. Past(LAST_ERROR)' /\ \A u \in Threads : Past(before[u])'
      BY <1>1, <2>1 DEF MessagesPass, Past, TypeOK
  <2>3. \A u \in Threads :
            /\ stage'[u] = "told" /\ pointer'[u] # NoMessage => pointer'[u] # before'[u]
            /\ stage'[u] = "told" => since'[u] = "begun"
      BY <1>1 DEF MessagesPass, TypeOK
  <2>. QED  BY <1>1, <2>2, <2>3 DEF MessagesPass
<1>. QED  BY <1>3, <1>4, <1>5, <1>6, <1>7

\* A call that runs leaves nobody else alone.
LEMMA RunningAlone ==
    ASSUME IInv, NEW t \in Threads, stage[t] \in Running,
           NEW u \in Threads, u # t, stage[u] # "idle"
    PROVE  ~ alone[u]
BY DEF IInv, AloneHolds

\* A call ends, with LAST_ERROR as it has to be.
LEMMA ReturnKeeps ==
    ASSUME IInv, NEW t \in Threads, stage[t] \in Running, NEW c \in {-1, 0, 1, 2},
           Return(t, c), LAST_ERROR' \in Messages \cup {NoMessage},
           output' \in [Threads -> {"old", "part", "whole"}],
           \A u \in Threads \ {t} : output'[u] = output[u],
           request[t].function = "lcp_decrypt_epub"
               => (c = 0 <=> output'[t] = "whole") /\ (c \in {1, 2} => output'[t] = "old"),
           LAST_ERROR' \in {LAST_ERROR, NoMessage}
               \/ (LAST_ERROR' # NoMessage /\ LAST_ERROR'.thread = t
                     /\ LAST_ERROR'.call = calls[t]),
           alone[t] => ThisCalls(t, LAST_ERROR)'
    PROVE  IInv'
<1>. USE DEF IInv
<1>1. /\ stage' = [stage EXCEPT ![t] = "returned"]
      /\ code' = [code EXCEPT ![t] = c]
      /\ UNCHANGED << request, pointer, calls, alone, before, since >>
    BY DEF Return, history
<1>2. /\ stage'[t] = "returned" /\ code'[t] = c
      /\ \A u \in Threads \ {t} : stage'[u] = stage[u] /\ code'[u] = code[u]
    BY <1>1 DEF TypeOK
<1>3. TypeOK'
  <2>1. stage' \in [Threads -> Stages] /\ code' \in [Threads -> {-1, 0, 1, 2}]
      BY <1>1 DEF TypeOK, Stages
  <2>2. \A u \in Threads : stage'[u] # "idle" => calls'[u] > 0 /\ request'[u] \in Requests
      BY <1>1, <1>2 DEF TypeOK, Running
  <2>. QED  BY <1>1, <2>1, <2>2 DEF TypeOK
<1>4. AloneHolds'
  <2>. SUFFICES ASSUME NEW u \in Threads, alone[u], stage'[u] # "idle"
                PROVE  /\ \A v \in Threads \ {u} : stage'[v] \notin Running
                       /\ stage'[u] \in Running => LAST_ERROR' = NoMessage
                       /\ Returned(u)' => ThisCalls(u, LAST_ERROR)'
                       /\ stage'[u] = "told" => pointer'[u] = LAST_ERROR'
      BY <1>1 DEF AloneHolds
  <2>1. u = t
      BY <1>2, RunningAlone
  <2>2. \A v \in Threads \ {t} : stage[v] \notin Running
      BY <2>1 DEF AloneHolds, Running
  <2>. QED  BY <1>2, <2>1, <2>2 DEF Running
<1>5. OutputFollows'
    BY <1>1, <1>2 DEF OutputFollows
<1>6. CodeTellsOutput'
    BY <1>1, <1>2 DEF CodeTellsOutput, Returned
<1>7. MessagesPass'
  <2>1. ASSUME NEW m, Past(m) PROVE Past(m)'
      BY <1>1, <1>2, <2>1 DEF Past, Running, TypeOK
  <2>2. \A u \in Threads : Past(before[u])'
      BY <1>1, <2>1 DEF MessagesPass
  <2>3. Past(LAST_ERROR)'
    <3>1. CASE LAST_ERROR' \in {LAST_ERROR, NoMessage}
        BY <2>1, <3>1 DEF MessagesPass, Past
    <3>2. CASE LAST_ERROR'.thread = t /\ LAST_ERROR'.call = calls[t]
        BY <1>1, <1>2, <3>2, FfiAssumption DEF Past, Running, TypeOK
    <3>. QED  BY <3>1, <3>2
  <2>4. ASSUME NEW u \in Threads, stage'[u] # "idle", LAST_ERROR' # NoMessage
        PROVE  LAST_ERROR' # before'[u]
    <3>1. stage[u] # "idle"
        BY <1>2, <2>4 DEF Running
    <3>2. CASE LAST_ERROR' = LAST_ERROR
        BY <1>1, <2>4, <3>1, <3>2 DEF MessagesPass
    <3>3. CASE LAST_ERROR'.thread = t /\ LAST_ERROR'.call = calls[t]
        BY <1>1, <2>4, <3>3, FfiAssumption DEF MessagesPass, Past, TypeOK
    <3>. QED  BY <2>4, <3>2, <3>3
  <2>5. ASSUME NEW u \in Threads, stage'[u] = "told"
        PROVE  /\ pointer'[u] # NoMessage => pointer'[u] # before'[u]
               /\ since'[u] # "nothing"
    <3>1. u # t /\ stage[u] = "told"
        BY <1>2, <2>5
    <3>2. OthersRun(u)
        BY <3>1 DEF OthersRun
    <3>. QED  BY <1>1, <3>1, <3>2 DEF MessagesPass
  <2>. QED  BY <2>2, <2>3, <2>4, <2>5 DEF MessagesPass
<1>. QED  BY <1>3, <1>4, <1>5, <1>6, <1>7

\* A call that fails says why: what it was given is the text.
LEMMA FailTells ==
    ASSUME IInv, NEW t \in Threads, stage[t] \in Running, NEW checks,
           NEW i \in First(checks, request[t].faults),
           set_error(t, checks[i]), Return(t, CodeOf(checks[i]))
    PROVE  /\ checks[i] \in request[t].faults
           /\ CodeOf(checks[i]) \in {-1, 1, 2}
           /\ LAST_ERROR' \in Messages \cup {NoMessage}
           /\ \/ LAST_ERROR' = NoMessage
              \/ LAST_ERROR' # NoMessage /\ LAST_ERROR'.thread = t
                    /\ LAST_ERROR'.call = calls[t]
           /\ request[t].function = "lcp_decrypt_epub" \/ CodeOf(checks[i]) = -1
              => ThisCalls(t, LAST_ERROR)'
<1>. USE DEF IInv
<1>. DEFINE fault == checks[i]
<1>1. fault \in request[t].faults /\ request[t] \in Requests /\ calls[t] > 0
    BY DEF First, Failing, TypeOK, Running
<1>2. fault \in Faults /\ calls[t] \in 1..MaxCalls
    BY <1>1, FfiAssumption DEF Requests, TypeOK
<1>3. CodeOf(fault) \in {-1, 1, 2}
    BY CodeType
<1>. HIDE DEF fault
<1>4. /\ code'[t] = CodeOf(fault) /\ request' = request /\ calls' = calls
    BY DEF Return, history, TypeOK, fault
<1>5. CASE fault = "unsupported profile with a NUL"
  <2>1. LAST_ERROR' = NoMessage
      BY <1>5 DEF set_error, fault
  <2>. QED  BY <1>1, <1>3, <1>4, <1>5, <2>1 DEF ThisCalls, fault
<1>6. CASE fault # "unsupported profile with a NUL"
  <2>1. LAST_ERROR' = Message(t, calls[t], fault)
      BY <1>6 DEF set_error, fault
  <2>2. /\ LAST_ERROR' \in Messages /\ LAST_ERROR' # NoMessage
        /\ LAST_ERROR'.thread = t /\ LAST_ERROR'.call = calls[t]
        /\ LAST_ERROR'.text = fault
      BY <1>2, <2>1, MessageType
  <2>3. request[t].function = "lcp_decrypt_epub" \/ CodeOf(fault) = -1 => Failed(t)'
      BY <1>3, <1>4 DEF Failed
  <2>. QED  BY <1>1, <1>3, <1>4, <2>2, <2>3 DEF ThisCalls, fault
<1>. QED  BY <1>5, <1>6

\* Everything lcp_is_encrypted finds wrong is an error.
LEMMA IsEncryptedCodes ==
    \A i \in DOMAIN IsEncryptedChecks : CodeOf(IsEncryptedChecks[i]) = -1
<1>1. DOMAIN IsEncryptedChecks = {1, 2, 3}
    BY DEF IsEncryptedChecks
<1>2. /\ IsEncryptedChecks[1] = "epub_path is null"
      /\ IsEncryptedChecks[2] = "epub_path is not UTF-8"
      /\ IsEncryptedChecks[3] = "not an EPUB"
    BY DEF IsEncryptedChecks
<1>. QED  BY <1>1, <1>2 DEF CodeOf

LEMMA RefuseKeeps == ASSUME IInv, NEW t \in Threads, Refuse(t) PROVE IInv'
<1>. DEFINE checks == ChecksOf(request[t].function)
<1>1. stage[t] = "begun" /\ output' = output
    BY DEF Refuse, Fail
<1>2. PICK i \in First(checks, request[t].faults) :
          set_error(t, checks[i]) /\ Return(t, CodeOf(checks[i]))
    BY DEF Refuse, Fail
<1>3. request[t].function = "lcp_decrypt_epub" \/ CodeOf(checks[i]) = -1
    BY <1>1, IsEncryptedCodes
    DEF First, Failing, ChecksOf, IInv, TypeOK, Requests, Functions
<1>4. output[t] = "old"
    BY <1>1 DEF IInv, OutputFollows
<1>. HIDE DEF checks
<1>5. /\ CodeOf(checks[i]) \in {-1, 1, 2} /\ ThisCalls(t, LAST_ERROR)'
      /\ LAST_ERROR' \in Messages \cup {NoMessage}
      /\ \/ LAST_ERROR' = NoMessage
         \/ LAST_ERROR' # NoMessage /\ LAST_ERROR'.thread = t /\ LAST_ERROR'.call = calls[t]
    BY <1>1, <1>2, <1>3, FailTells DEF Running
<1>. QED
    BY <1>1, <1>2, <1>4, <1>5, ReturnKeeps DEF Running, IInv, TypeOK

LEMMA FailToWriteKeeps == ASSUME IInv, NEW t \in Threads, FailToWrite(t) PROVE IInv'
<1>1. stage[t] = "writing" /\ output' = output
    BY DEF FailToWrite, Fail
<1>2. PICK i \in First(WriteChecks, request[t].faults) :
          set_error(t, WriteChecks[i]) /\ Return(t, CodeOf(WriteChecks[i]))
    BY DEF FailToWrite, Fail
<1>3. CodeOf(WriteChecks[i]) = -1
    BY WriteCheckFaults, CodeType DEF First, Failing
<1>4. output[t] = "part"
    BY <1>1 DEF IInv, OutputFollows
<1>5. /\ ThisCalls(t, LAST_ERROR)' /\ LAST_ERROR' \in Messages \cup {NoMessage}
      /\ \/ LAST_ERROR' = NoMessage
         \/ LAST_ERROR' # NoMessage /\ LAST_ERROR'.thread = t /\ LAST_ERROR'.call = calls[t]
    BY <1>1, <1>2, <1>3, FailTells DEF Running
<1>. QED
    BY <1>1, <1>2, <1>3, <1>4, <1>5, ReturnKeeps DEF Running, IInv, TypeOK

LEMMA FinishKeeps == ASSUME IInv, NEW t \in Threads, Finish(t) PROVE IInv'
<1>. USE DEF IInv
<1>1. /\ stage[t] = "writing" /\ Return(t, 0) /\ LAST_ERROR' = LAST_ERROR
      /\ Failing(WriteChecks, request[t].faults) = {}
      /\ output' = [output EXCEPT
             ![t] = IF request[t].faults \cap WriteFaults = {} THEN "whole" ELSE output[t]]
    BY DEF Finish
<1>2. request[t].faults \cap WriteFaults = {}
    BY <1>1, WriteCheckFaults DEF Failing
<1>3. /\ output' \in [Threads -> {"old", "part", "whole"}] /\ output'[t] = "whole"
      /\ \A u \in Threads \ {t} : output'[u] = output[u]
    BY <1>1, <1>2 DEF TypeOK
<1>4. alone[t] => LAST_ERROR = NoMessage
    BY <1>1 DEF AloneHolds, Running
<1>5. ~ Failed(t)'
    BY <1>1 DEF Failed, Return, TypeOK
<1>6. alone[t] => ThisCalls(t, LAST_ERROR)'
    BY <1>1, <1>4, <1>5 DEF ThisCalls
<1>. QED
    BY <1>1, <1>3, <1>6, ReturnKeeps DEF Running, TypeOK

LEMMA IsEncryptedKeeps == ASSUME IInv, NEW t \in Threads, lcp_is_encrypted(t) PROVE IInv'
<1>. USE DEF IInv
<1>1. /\ stage[t] = "begun" /\ request[t].function = "lcp_is_encrypted"
      /\ LAST_ERROR' = LAST_ERROR /\ output' = output
    BY DEF lcp_is_encrypted, Accepted
<1>2. PICK c \in {0, 1} : Return(t, c)
    BY DEF lcp_is_encrypted
<1>3. alone[t] => LAST_ERROR = NoMessage
    BY <1>1 DEF AloneHolds, Running
<1>4. ~ Failed(t)'
    BY <1>1, <1>2 DEF Failed, Return, TypeOK
<1>5. alone[t] => ThisCalls(t, LAST_ERROR)'
    BY <1>1, <1>3, <1>4 DEF ThisCalls
<1>. QED
    BY <1>1, <1>2, <1>5, ReturnKeeps DEF Running, TypeOK

LEMMA CreateKeeps == ASSUME IInv, NEW t \in Threads, Create(t) PROVE IInv'
<1>. USE DEF IInv
<1>1. /\ stage[t] = "begun" /\ request[t].function = "lcp_decrypt_epub"
      /\ stage' = [stage EXCEPT ![t] = "writing"]
      /\ output' = [output EXCEPT ![t] = "part"]
      /\ UNCHANGED << LAST_ERROR, request, code, pointer, calls, alone, before, since >>
    BY DEF Create, Accepted, history
<1>2. /\ stage'[t] = "writing" /\ output'[t] = "part"
      /\ \A u \in Threads \ {t} : stage'[u] = stage[u] /\ output'[u] = output[u]
    BY <1>1 DEF TypeOK
<1>3. TypeOK'
  <2>1. /\ stage' \in [Threads -> Stages]
        /\ output' \in [Threads -> {"old", "part", "whole"}]
      BY <1>1 DEF TypeOK, Stages
  <2>2. \A u \in Threads : stage'[u] # "idle" => calls'[u] > 0 /\ request'[u] \in Requests
      BY <1>1, <1>2 DEF TypeOK
  <2>. QED  BY <1>1, <2>1, <2>2 DEF TypeOK
<1>4. AloneHolds'
  <2>. SUFFICES ASSUME NEW u \in Threads, alone[u], stage'[u] # "idle"
                PROVE  /\ u = t
                       /\ \A v \in Threads \ {t} : stage'[v] \notin Running
                       /\ LAST_ERROR' = NoMessage
      BY <1>1, <1>2 DEF AloneHolds, Returned
  <2>1. u = t
      BY <1>1, <1>2, RunningAlone DEF Running
  <2>. QED  BY <1>1, <1>2, <2>1 DEF AloneHolds, Running
<1>5. OutputFollows'
    BY <1>1, <1>2 DEF OutputFollows
<1>6. CodeTellsOutput'
    BY <1>1, <1>2 DEF CodeTellsOutput, Returned
<1>7. MessagesPass'
  <2>1. \A u : stage'[u] \in Running <=> stage[u] \in Running
      BY <1>1, <1>2 DEF Running, TypeOK
  <2>2. ASSUME NEW m, Past(m) PROVE Past(m)'
      BY <1>1, <2>1, <2>2 DEF Past
  <2>3. \A u \in Threads : OthersRun(u)' <=> OthersRun(u)
      BY <2>1 DEF OthersRun
  <2>. QED  BY <1>1, <1>2, <2>2, <2>3 DEF MessagesPass
<1>. QED  BY <1>3, <1>4, <1>5, <1>6, <1>7

LEMMA GetErrorKeeps == ASSUME IInv, NEW t \in Threads, lcp_get_error(t) PROVE IInv'
<1>. USE DEF IInv
<1>1. /\ stage[t] = "returned" /\ stage' = [stage EXCEPT ![t] = "told"]
      /\ pointer' = [pointer EXCEPT ![t] = LAST_ERROR]
      /\ since' = [since EXCEPT ![t] = IF OthersRun(t) THEN "running" ELSE "nothing"]
      /\ UNCHANGED << LAST_ERROR, request, code, output, calls, alone, before >>
    BY DEF lcp_get_error
<1>2. /\ stage'[t] = "told" /\ pointer'[t] = LAST_ERROR
      /\ \A u \in Threads \ {t} :
            stage'[u] = stage[u] /\ pointer'[u] = pointer[u] /\ since'[u] = since[u]
    BY <1>1 DEF TypeOK
<1>3. TypeOK'
  <2>1. /\ stage' \in [Threads -> Stages] /\ pointer' \in [Threads -> Messages \cup {NoMessage}]
        /\ since' \in [Threads -> {"nothing", "running", "begun"}]
      BY <1>1 DEF TypeOK, Stages
  <2>2. \A u \in Threads : stage'[u] # "idle" => calls'[u] > 0 /\ request'[u] \in Requests
      BY <1>1, <1>2 DEF TypeOK
  <2>. QED  BY <1>1, <2>1, <2>2 DEF TypeOK
<1>4. AloneHolds'
  <2>. SUFFICES ASSUME NEW u \in Threads, alone[u], stage'[u] # "idle"
                PROVE  /\ \A v \in Threads \ {u} : stage'[v] \notin Running
                       /\ stage'[u] \in Running => LAST_ERROR' = NoMessage
                       /\ Returned(u)' => ThisCalls(u, LAST_ERROR)'
                       /\ stage'[u] = "told" => pointer'[u] = LAST_ERROR'
      BY <1>1 DEF AloneHolds
  <2>1. stage[u] # "idle"
      BY <1>1, <1>2
  <2>2. ThisCalls(u, LAST_ERROR)' = ThisCalls(u, LAST_ERROR)
      BY <1>1 DEF ThisCalls, Failed
  <2>3. Returned(u)' => Returned(u)
      BY <1>1, <1>2 DEF Returned
  <2>4. \A v \in Threads \ {u} : stage'[v] \notin Running
      BY <1>1, <1>2, <2>1 DEF AloneHolds, Running
  <2>. QED  BY <1>1, <1>2, <2>1, <2>2, <2>3, <2>4 DEF AloneHolds, Running
<1>5. OutputFollows' /\ CodeTellsOutput'
    BY <1>1, <1>2 DEF OutputFollows, CodeTellsOutput, Returned
<1>6. MessagesPass'
  <2>1. \A u : stage'[u] \in Running <=> stage[u] \in Running
      BY <1>1, <1>2 DEF Running, TypeOK
  <2>2. ASSUME NEW m, Past(m) PROVE Past(m)'
      BY <1>1, <2>1, <2>2 DEF Past
  <2>3. \A u \in Threads : OthersRun(u)' <=> OthersRun(u)
      BY <2>1 DEF OthersRun
  <2>4. /\ Past(LAST_ERROR)' /\ \A u \in Threads : Past(before[u])'
        /\ \A u \in Threads : stage'[u] # "idle" => stage[u] # "idle"
      BY <1>1, <1>2, <2>2 DEF MessagesPass
  <2>5. /\ pointer'[t] # NoMessage => pointer'[t] # before'[t]
        /\ since'[t] = "nothing" => ~ OthersRun(t)
      BY <1>1, <1>2 DEF MessagesPass, TypeOK
  <2>. QED  BY <1>1, <1>2, <2>3, <2>4, <2>5 DEF MessagesPass
<1>. QED  BY <1>3, <1>4, <1>5, <1>6

LEMMA DoneKeeps == ASSUME IInv, NEW t \in Threads, Done(t) PROVE IInv'
<1>. USE DEF IInv
<1>1. /\ stage[t] \in {"returned", "told"} /\ stage' = [stage EXCEPT ![t] = "idle"]
      /\ request' = [request EXCEPT ![t] = Nothing]
      /\ code' = [code EXCEPT ![t] = 0]
      /\ output' = [output EXCEPT ![t] = "old"]
      /\ pointer' = [pointer EXCEPT ![t] = NoMessage]
      /\ before' = [before EXCEPT ![t] = NoMessage]
      /\ since' = [since EXCEPT ![t] = "nothing"]
      /\ UNCHANGED << LAST_ERROR, calls, alone >>
    BY DEF Done
<1>2. /\ stage'[t] = "idle" /\ output'[t] = "old"
      /\ \A u \in Threads \ {t} :
            /\ stage'[u] = stage[u] /\ request'[u] = request[u] /\ code'[u] = code[u]
            /\ output'[u] = output[u] /\ pointer'[u] = pointer[u]
            /\ before'[u] = before[u] /\ since'[u] = since[u]
    BY <1>1 DEF TypeOK
<1>3. TypeOK'
  <2>1. stage' \in [Threads -> Stages] /\ request' \in [Threads -> Requests \cup {Nothing}]
      BY <1>1 DEF TypeOK, Stages
  <2>2. /\ code' \in [Threads -> {-1, 0, 1, 2}]
        /\ output' \in [Threads -> {"old", "part", "whole"}]
        /\ pointer' \in [Threads -> Messages \cup {NoMessage}]
        /\ before' \in [Threads -> Messages \cup {NoMessage}]
        /\ since' \in [Threads -> {"nothing", "running", "begun"}]
      BY <1>1 DEF TypeOK
  <2>3. \A u \in Threads : stage'[u] # "idle" => calls'[u] > 0 /\ request'[u] \in Requests
      BY <1>1, <1>2 DEF TypeOK
  <2>. QED  BY <1>1, <2>1, <2>2, <2>3 DEF TypeOK
<1>4. AloneHolds'
  <2>. SUFFICES ASSUME NEW u \in Threads, alone[u], stage'[u] # "idle"
                PROVE  /\ \A v \in Threads \ {u} : stage'[v] \notin Running
                       /\ stage'[u] \in Running => LAST_ERROR' = NoMessage
                       /\ Returned(u)' => ThisCalls(u, LAST_ERROR)'
                       /\ stage'[u] = "told" => pointer'[u] = LAST_ERROR'
      BY <1>1 DEF AloneHolds
  <2>1. u # t /\ stage[u] # "idle"
      BY <1>2
  <2>2. ThisCalls(u, LAST_ERROR)' = ThisCalls(u, LAST_ERROR)
      BY <1>1, <1>2, <2>1 DEF ThisCalls, Failed
  <2>3. Returned(u)' => Returned(u)
      BY <1>2, <2>1 DEF Returned
  <2>4. \A v \in Threads \ {u} : stage'[v] \notin Running
      BY <1>2, <2>1 DEF AloneHolds, Running
  <2>. QED  BY <1>1, <1>2, <2>1, <2>2, <2>3, <2>4 DEF AloneHolds
<1>5. OutputFollows' /\ CodeTellsOutput'
    BY <1>1, <1>2 DEF OutputFollows, CodeTellsOutput, Returned
<1>6. MessagesPass'
  <2>1. \A u : stage'[u] \in Running <=> stage[u] \in Running
      BY <1>1, <1>2 DEF Running, TypeOK
  <2>2. ASSUME NEW m, Past(m) PROVE Past(m)'
      BY <1>1, <2>1, <2>2 DEF Past
  <2>3. \A u \in Threads : OthersRun(u)' <=> OthersRun(u)
      BY <2>1 DEF OthersRun
  <2>4. before'[t] = NoMessage
      BY <1>1 DEF TypeOK
  <2>5. /\ Past(LAST_ERROR)' /\ Past(before[t])'
        /\ \A u \in Threads \ {t} : Past(before[u])'
      BY <1>1, <1>2, <2>2, <2>4 DEF MessagesPass, Past
  <2>. QED  BY <1>1, <1>2, <2>3, <2>5 DEF MessagesPass
<1>. QED  BY <1>3, <1>4, <1>5, <1>6

----------------------------------------------------------------------------
LEMMA NextIInv == IInv /\ [Next]_vars => IInv'
<1>. SUFFICES ASSUME IInv, [Next]_vars PROVE IInv'
    OBVIOUS
<1>1. CASE UNCHANGED vars
  <2>. USE <1>1 DEF vars, IInv
  <2>1. TypeOK' /\ OutputFollows' /\ CodeTellsOutput'
      BY DEF TypeOK, OutputFollows, CodeTellsOutput, Returned
  <2>2. AloneHolds'
      BY DEF AloneHolds, Returned, ThisCalls, Failed
  <2>3. MessagesPass'
      BY DEF MessagesPass, Past, OthersRun
  <2>. QED  BY <2>1, <2>2, <2>3
<1>2. CASE Next
  <2>. PICK t \in Threads : Step(t)
      BY <1>2 DEF Next
  <2>1. CASE \E r \in Requests : Begin(t, r)
      BY <2>1, BeginKeeps
  <2>2. CASE Refuse(t)
      BY <2>2, RefuseKeeps
  <2>3. CASE lcp_is_encrypted(t)
      BY <2>3, IsEncryptedKeeps
  <2>4. CASE Create(t)
      BY <2>4, CreateKeeps
  <2>5. CASE FailToWrite(t)
      BY <2>5, FailToWriteKeeps
  <2>6. CASE Finish(t)
      BY <2>6, FinishKeeps
  <2>7. CASE lcp_get_error(t)
      BY <2>7, GetErrorKeeps
  <2>8. CASE Done(t)
      BY <2>8, DoneKeeps
  <2>. QED  BY <2>1, <2>2, <2>3, <2>4, <2>5, <2>6, <2>7, <2>8 DEF Step
<1>. QED  BY <1>1, <1>2

LEMMA Invariant == Spec => []IInv
BY InitIInv, NextIInv, PTL DEF Spec

\* Every call returns a code the header lists, and every message kept is one of a call.
THEOREM TypeCorrectFfi == Spec => []TypeOK
<1>1. IInv => TypeOK
    BY DEF IInv
<1>. QED  BY <1>1, Invariant, PTL

\* For any number of threads and calls and anything wrong with them: a caller whose
\* call overlapped no other is told what went wrong with it, an overlapping one never
\* what an earlier call left, and the message lives while no other call runs.
THEOREM ErrorAlwaysTellsThisCall == Spec => []ErrorTellsThisCall
<1>1. IInv => ErrorTellsThisCall
    BY DEF IInv, AloneHolds, MessagesPass, ErrorTellsThisCall, Returned
<1>. QED  BY <1>1, Invariant, PTL

\* The code tells what is at the call's output path, whatever goes wrong with it.
THEOREM CodeAlwaysTellsOutput == Spec => []CodeTellsOutput
<1>1. IInv => CodeTellsOutput
    BY DEF IInv
<1>. QED  BY <1>1, Invariant, PTL
=============================================================================
