----------------------------- MODULE TcpClient ------------------------------
(***************************************************************************)
(* connect_address of src/tcp/tcpclient.cpp: resolve a domain, race one    *)
(* connection attempt per address, return the first that succeeds.  The    *)
(* caller sleeps on a timer that never expires; the winner moves its       *)
(* socket into the shared optional `result` and cancels that timer.        *)
(* Attempts are never cancelled: a loser finds the optional engaged and    *)
(* drops its socket.  One call is modelled; calls share nothing.           *)
(***************************************************************************)
EXTENDS Naturals, FiniteSets

CONSTANTS Attempts,   \* the places of the vector of addresses
          NoSocket    \* the empty std::optional<tcp::socket>

ASSUME NoSocketAssumption == NoSocket \notin Attempts

VARIABLES caller,     \* the coroutine of connect_address
          ips,        \* the attempts that were spawned, one per resolved address
          attempt,    \* attempt[i]: the coroutine connect_address_work for address i
          sock,       \* sock[i]: the socket attempt i opened, wherever it lives now
          result,     \* the shared optional: the attempt whose socket it holds or held
          timer,      \* the caller's steady_timer
          returned    \* the socket the call returned

vars == <<caller, ips, attempt, sock, result, timer, returned>>

Init == /\ caller = "start"
        /\ ips = {}
        /\ attempt = [i \in Attempts |-> "none"]
        /\ sock = [i \in Attempts |-> "none"]
        /\ result = NoSocket
        /\ timer = "idle"
        /\ returned = NoSocket

-----------------------------------------------------------------------------
(* The operating system answers a connect: the completion is queued, and   *)
(* the coroutine runs some time later.                                     *)
Established(i) == /\ attempt[i] = "connecting"
                  /\ attempt' = [attempt EXCEPT ![i] = "established"]
                  /\ sock' = [sock EXCEPT ![i] = "connected"]
                  /\ UNCHANGED <<caller, ips, result, timer, returned>>

Refused(i) == /\ attempt[i] = "connecting"
              /\ attempt' = [attempt EXCEPT ![i] = "refused"]
              /\ UNCHANGED <<caller, ips, sock, result, timer, returned>>

(* steady_timer::cancel posts the waiting coroutine. *)
Cancel == timer' = IF timer = "waiting" THEN "cancelled" ELSE timer

-----------------------------------------------------------------------------
(* A literal address is handed to connect_ip: one attempt, awaited, whose  *)
(* exception is the caller's.                                              *)
connect_ip(i) == /\ caller = "start"
                 /\ caller' = "connecting"
                 /\ ips' = {i}
                 /\ attempt' = [attempt EXCEPT ![i] = "connecting"]
                 /\ sock' = [sock EXCEPT ![i] = "open"]
                 /\ UNCHANGED <<result, timer, returned>>

ReturnLiteral(i) == /\ caller = "connecting" /\ attempt[i] = "established"
                    /\ caller' = "returned"
                    /\ returned' = i
                    /\ attempt' = [attempt EXCEPT ![i] = "ended"]
                    /\ UNCHANGED <<ips, sock, result, timer>>

ThrowLiteral(i) == /\ caller = "connecting" /\ attempt[i] = "refused"
                   /\ caller' = "threw"
                   /\ attempt' = [attempt EXCEPT ![i] = "ended"]
                   /\ sock' = [sock EXCEPT ![i] = "closed"]
                   /\ UNCHANGED <<ips, result, timer, returned>>

Resolve == /\ caller = "start"
           /\ caller' = "resolving"
           /\ UNCHANGED <<ips, attempt, sock, result, timer, returned>>

(* DnsCenter::resolve threw. *)
ResolveFails == /\ caller = "resolving"
                /\ caller' = "threw"
                /\ UNCHANGED <<ips, attempt, sock, result, timer, returned>>

(* Mutant: the timer's expiry is never set, so the wait ends at once. *)
SpawnAttemptsExpired(S) ==
  /\ caller = "resolving"
  /\ caller' = "waiting"
  /\ ips' = S
  /\ attempt' = [i \in Attempts |-> IF i \in S THEN "connecting" ELSE attempt[i]]
  /\ sock' = [i \in Attempts |-> IF i \in S THEN "open" ELSE sock[i]]
  /\ timer' = "cancelled"
  /\ UNCHANGED <<result, returned>>

(* The answer, possibly empty: one attempt per address is spawned, each    *)
(* runs to its async_connect, and the caller starts its wait; no           *)
(* completion can run in between.                                          *)
SpawnAttempts(S) ==
  /\ caller = "resolving"
  /\ caller' = "waiting"
  /\ ips' = S
  /\ attempt' = [i \in Attempts |-> IF i \in S THEN "connecting" ELSE attempt[i]]
  /\ sock' = [i \in Attempts |-> IF i \in S THEN "open" ELSE sock[i]]
  /\ timer' = "waiting"
  /\ UNCHANGED <<result, returned>>

(* Mutants: no test of has_value(); no cancel(). *)
WorkWinsAgain(i) == /\ caller # "connecting"
                    /\ attempt[i] = "established"
                    /\ result' = i
                    /\ Cancel
                    /\ attempt' = [attempt EXCEPT ![i] = "ended"]
                    /\ UNCHANGED <<caller, ips, sock, returned>>

WorkWinsSilently(i) == /\ caller # "connecting"
                       /\ attempt[i] = "established"
                       /\ result = NoSocket
                       /\ result' = i
                       /\ attempt' = [attempt EXCEPT ![i] = "ended"]
                       /\ UNCHANGED <<caller, ips, sock, timer, returned>>

(* connect_address_work after a successful connect, first of the race. *)
WorkWins(i) == /\ caller # "connecting"
               /\ attempt[i] = "established"
               /\ result = NoSocket
               /\ result' = i
               /\ Cancel
               /\ attempt' = [attempt EXCEPT ![i] = "ended"]
               /\ UNCHANGED <<caller, ips, sock, returned>>

(* Mutant: the late socket is parked instead of dropped. *)
WorkLateKeeps(i) == /\ attempt[i] = "established"
                    /\ result # NoSocket
                    /\ attempt' = [attempt EXCEPT ![i] = "ended"]
                    /\ UNCHANGED <<caller, ips, sock, result, timer, returned>>

(* After a successful connect, too late: the socket dies with the frame.   *)
(* The optional stays engaged after the caller moved the socket out of it. *)
WorkLate(i) == /\ attempt[i] = "established"
               /\ result # NoSocket
               /\ attempt' = [attempt EXCEPT ![i] = "ended"]
               /\ sock' = [sock EXCEPT ![i] = "closed"]
               /\ UNCHANGED <<caller, ips, result, timer, returned>>

(* Mutant: the failure is stored as the result. *)
WorkFailsLoudly(i) == /\ caller # "connecting"
                      /\ attempt[i] = "refused"
                      /\ attempt' = [attempt EXCEPT ![i] = "ended"]
                      /\ sock' = [sock EXCEPT ![i] = "closed"]
                      /\ result' = "error"
                      /\ UNCHANGED <<caller, ips, timer, returned>>

(* After a failed connect: the exception is logged and that is all. *)
WorkFails(i) == /\ caller # "connecting"
                /\ attempt[i] = "refused"
                /\ attempt' = [attempt EXCEPT ![i] = "ended"]
                /\ sock' = [sock EXCEPT ![i] = "closed"]
                /\ UNCHANGED <<caller, ips, result, timer, returned>>

connect_address_work(i) == WorkWins(i) \/ WorkLate(i) \/ WorkFails(i)

(* The wait ends: the caller takes the socket, or reports the failure. *)
Wake == /\ caller = "waiting" /\ timer = "cancelled"
        /\ timer' = "idle"
        /\ IF result = NoSocket
           THEN caller' = "threw" /\ UNCHANGED returned
           ELSE caller' = "returned" /\ returned' = result
        /\ UNCHANGED <<ips, attempt, sock, result>>

Next == \/ \E i \in Attempts : connect_ip(i)
        \/ Resolve \/ ResolveFails
        \/ \E S \in SUBSET Attempts : SpawnAttempts(S)
        \/ \E i \in Attempts : \/ Established(i) \/ Refused(i)
                               \/ ReturnLiteral(i) \/ ThrowLiteral(i)
                               \/ connect_address_work(i)
        \/ Wake

Spec == Init /\ [][Next]_vars

(* The io_context runs what is ready.  Neither the resolver nor the        *)
(* operating system is assumed to answer.                                  *)
Fairness ==
  /\ \A i \in Attempts :
       WF_vars(ReturnLiteral(i) \/ ThrowLiteral(i) \/ connect_address_work(i))
  /\ WF_vars(Wake)

FairSpec == Spec /\ Fairness

-----------------------------------------------------------------------------
TypeOK ==
  /\ caller \in {"start", "resolving", "connecting", "waiting", "returned", "threw"}
  /\ ips \in SUBSET Attempts
  /\ attempt \in [Attempts -> {"none", "connecting", "established", "refused", "ended"}]
  /\ sock \in [Attempts -> {"none", "open", "connected", "closed"}]
  /\ result \in Attempts \cup {NoSocket}
  /\ timer \in {"idle", "waiting", "cancelled"}
  /\ returned \in Attempts \cup {NoSocket}

(* Of all the sockets the race connects, the caller gets one and every     *)
(* other is closed by the time its attempt has ended, however late it      *)
(* connects (lines 19-21): none leaks.                                     *)
NoSocketLeaks ==
  \A i \in Attempts :
    attempt[i] = "ended" /\ i # result /\ i # returned => sock[i] = "closed"

(* The socket a call returns is a connected one, its attempt is over and   *)
(* no other attempt can touch it.                                          *)
ReturnedIsConnected ==
  caller = "returned" => /\ returned \in ips
                         /\ sock[returned] = "connected"
                         /\ attempt[returned] = "ended"

(* The caller is woken exactly by a result: it sleeps while there is none, *)
(* and never sleeps uncancelled beside one.                                *)
WokenByResult ==
  caller = "waiting" => timer = IF result = NoSocket THEN "waiting" ELSE "cancelled"

(* Once engaged, the optional is never assigned again: a second success    *)
(* would close the socket the caller is about to take, or already uses.    *)
FirstSuccessWins == [][result # NoSocket => result' = result]_vars

(* If some attempt of the race connects, the call returns. *)
SuccessIsReturned ==
  \A i \in Attempts : (attempt[i] = "established") ~> (caller = "returned")

(* tcpclient.cpp:54, "all tries to connect address fail": a call that has  *)
(* tried some addresses, and all of whose attempts fail, throws.           *)
FailureIsReported ==
  (/\ caller = "waiting" /\ ips # {}
   /\ \A i \in ips : attempt[i] = "ended" /\ i # result) ~> (caller = "threw")
=============================================================================
