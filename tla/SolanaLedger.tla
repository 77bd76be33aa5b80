---------------------------- MODULE SolanaLedger ----------------------------
(* ledger/useSolanaLedger.ts: one hook over one transport at a time. connect *)
(* and disconnect await the closing of the old transport, the opening of the *)
(* new one and a probe, while the device may be unplugged or replaced; a     *)
(* transport that loses its device tells whoever listened to it.             *)
EXTENDS Naturals, Sequences

CONSTANTS Ledger     \* the devices

VARIABLES
  plugged,      \* the devices that are there
  transports,   \* every transport opened: its device, whether it is alive, listened to
  ref,          \* transportRef and solanaAppRef: its number, 0 for null
  conn,         \* the connect call
  closing,      \* the disconnect calls under way: the transports they close
  isConnected,
  addresses,    \* the device the shown addresses were derived on, or none
  deriving,     \* the deriveAddresses calls under way: their transports
  notices,      \* transports whose "disconnect" event is still to come
  orphaned      \* history: transports whose refs another one's end took

ledgerVars == <<plugged, transports, ref, conn, closing, isConnected,
                addresses, deriving, notices, orphaned>>

NotConnecting == [step |-> "idle", t |-> 0]

LedgerTypeOK ==
  LET Id == DOMAIN transports
  IN /\ plugged \subseteq Ledger
     /\ ref \in {0} \cup Id /\ conn.t \in {0} \cup Id
     /\ conn.step \in {"idle", "closing", "opening", "probing", "releasing"}
     /\ closing \subseteq {0} \cup Id /\ deriving \subseteq Id
     /\ notices \subseteq Id /\ orphaned \subseteq Id
     /\ addresses \subseteq Ledger /\ isConnected \in BOOLEAN
     /\ \A t \in Id : transports[t].device \in Ledger

LedgerInit ==
  /\ plugged = Ledger
  /\ transports = <<>>
  /\ ref = 0 /\ conn = NotConnecting /\ closing = {} /\ isConnected = FALSE
  /\ addresses = {} /\ deriving = {} /\ notices = {} /\ orphaned = {}

close(t) == transports' = [transports EXCEPT ![t].alive = FALSE]

resetConnection ==
  /\ ref' = 0
  /\ isConnected' = FALSE

connect ==
  /\ conn.step = "idle"
  /\ conn' = [step |-> "closing", t |-> ref]
  /\ UNCHANGED <<plugged, transports, ref, closing, isConnected, addresses, deriving, notices, orphaned>>

\* isConnected stays what it was until the new connection stands or fails.
priorClosed ==
  /\ conn.step = "closing"
  /\ IF conn.t = 0 THEN UNCHANGED transports ELSE close(conn.t)
  /\ ref' = 0
  /\ conn' = [step |-> "opening", t |-> 0]
  /\ UNCHANGED <<plugged, closing, isConnected, addresses, deriving, notices, orphaned>>

createLedgerTransport(d) ==
  /\ conn.step = "opening" /\ d \in plugged
  /\ transports' = Append(transports, [device |-> d, alive |-> TRUE, heard |-> FALSE])
  /\ conn' = [step |-> "probing", t |-> Len(transports')]
  /\ UNCHANGED <<plugged, ref, closing, isConnected, addresses, deriving, notices, orphaned>>

openFails ==
  /\ conn.step = "opening"
  /\ conn' = NotConnecting
  /\ resetConnection
  /\ UNCHANGED <<plugged, transports, closing, addresses, deriving, notices, orphaned>>

\* Mutant of probed: nobody listens for the end of the transport.
ProbedUnheard ==
  /\ conn.step = "probing" /\ transports[conn.t].alive
  /\ ref' = conn.t /\ isConnected' = TRUE
  /\ conn' = NotConnecting
  /\ UNCHANGED <<plugged, transports, closing, addresses, deriving, notices, orphaned>>

probed ==
  /\ conn.step = "probing" /\ transports[conn.t].alive
  /\ transports' = [transports EXCEPT ![conn.t].heard = TRUE]
  /\ ref' = conn.t /\ isConnected' = TRUE
  /\ conn' = NotConnecting
  /\ UNCHANGED <<plugged, closing, addresses, deriving, notices, orphaned>>

\* Locked, no Solana app, unplugged: the transport is closed, then forgotten.
probeFails ==
  /\ conn.step = "probing"
  /\ conn' = [conn EXCEPT !.step = "releasing"]
  /\ UNCHANGED <<plugged, transports, ref, closing, isConnected, addresses, deriving, notices, orphaned>>

\* Mutant of released: the transport of a failed probe stays open.
ReleasedOpen ==
  /\ conn.step = "releasing"
  /\ conn' = NotConnecting
  /\ resetConnection
  /\ UNCHANGED <<plugged, transports, closing, addresses, deriving, notices, orphaned>>

released ==
  /\ conn.step = "releasing"
  /\ close(conn.t)
  /\ conn' = NotConnecting
  /\ resetConnection
  /\ UNCHANGED <<plugged, closing, addresses, deriving, notices, orphaned>>

\* The refs are reset, to whatever transport they point to by now.
Forget(t) ==
  /\ orphaned' = orphaned \cup ({ref} \ {0, t})
  /\ resetConnection

disconnect ==
  /\ ref \notin closing
  /\ closing' = closing \cup {ref}
  /\ UNCHANGED <<plugged, transports, ref, conn, isConnected, addresses, deriving, notices, orphaned>>

disconnected(t) ==
  /\ IF t = 0 THEN UNCHANGED transports ELSE close(t)
  /\ Forget(t)
  /\ closing' = closing \ {t}
  /\ addresses' = {}
  /\ UNCHANGED <<plugged, conn, deriving, notices>>

deriveAddresses ==
  /\ ref # 0
  /\ deriving' = deriving \cup {ref}
  /\ UNCHANGED <<plugged, transports, ref, conn, closing, isConnected, addresses, notices, orphaned>>

\* It goes on with the app instance it captured, as long as that one answers.
derived(t) ==
  /\ deriving' = deriving \ {t}
  /\ \/ transports[t].alive /\ addresses' = {transports[t].device}
     \/ UNCHANGED addresses
  /\ UNCHANGED <<plugged, transports, ref, conn, closing, isConnected, notices, orphaned>>

\* Every transport of the device is dead. The live one announces it; one that
\* was closed before may (WebHID) or may not (WebUSB).
unplug(d) ==
  /\ d \in plugged
  /\ plugged' = plugged \ {d}
  /\ LET of == {t \in DOMAIN transports : transports[t].device = d}
         heard == {t \in of : transports[t].heard}
     IN /\ \E more \in SUBSET heard :
             notices' = notices \cup more \cup {t \in heard : transports[t].alive}
        /\ transports' = [t \in DOMAIN transports |->
             IF t \in of THEN [transports[t] EXCEPT !.alive = FALSE, !.heard = FALSE]
             ELSE transports[t]]
  /\ UNCHANGED <<ref, conn, closing, isConnected, addresses, deriving, orphaned>>

plug(d) ==
  /\ d \notin plugged
  /\ plugged' = plugged \cup {d}
  /\ UNCHANGED <<transports, ref, conn, closing, isConnected, addresses, deriving, notices, orphaned>>

notice(t) ==
  /\ notices' = notices \ {t}
  /\ Forget(t)
  /\ UNCHANGED <<plugged, transports, conn, closing, addresses, deriving>>

LedgerCall == connect \/ disconnect \/ deriveAddresses

LedgerEvent ==
  \/ priorClosed \/ openFails \/ probed \/ probeFails \/ released
  \/ \E d \in Ledger : createLedgerTransport(d) \/ unplug(d) \/ plug(d)
  \/ \E t \in closing : disconnected(t)
  \/ \E t \in deriving : derived(t)
  \/ \E t \in notices : notice(t)

(* No transport is leaked: a live one is the hook's, or some call is about   *)
(* to adopt or to close it. The exception is one whose refs were taken by    *)
(* the end of another transport: a late event of the device used before, or  *)
(* a disconnect that a newer connect overtook.                               *)
TransportsAccountedFor ==
  \A t \in DOMAIN transports :
    transports[t].alive => t \in {ref, conn.t} \cup closing \cup orphaned

(* A hook that says it is connected, and is not reconnecting, has a live     *)
(* transport, or is about to hear of its end.                                *)
ConnectedIsUsable ==
  isConnected /\ conn.step = "idle" =>
    ref # 0 /\ (transports[ref].alive \/ ref \in notices)
=============================================================================
