--------------------------------- MODULE Relay ---------------------------------
(***************************************************************************)
(* What nodes tell each other, blocks and addresses.  The two have nothing *)
(* in common but the connections: either there is no node yet to tell its  *)
(* address, or the blocks have been told.                                  *)
(***************************************************************************)
EXTENDS BlockSync, Addresses

\* A node that has all blocks, and peers that know it.
Told ==
    /\ nHeight = [p \in Peer |-> Top]
    /\ up = Peer /\ drops = 0
    /\ toNode = [p \in Peer |-> <<>>] /\ toPeer = [p \in Peer |-> <<>>]
    /\ vInventoryToSend = [p \in Peer |-> <<>>]
    /\ setInventoryKnown = [p \in Peer |-> Block]
    /\ hashContinue = [p \in Peer |-> Nothing]
    /\ have = Block /\ orphans = {}
    /\ nAskedForBlocks = TRUE
    /\ lastGetBlocks = [p \in Peer |-> Never]
    /\ nRequestTime = [b \in Block |-> Past]
    /\ mapAskFor = [p \in Peer |-> NothingAsked]

RelayInit == AddressesInit /\ (IF online = {} THEN Init ELSE Told)
RelayNext == \/ Next /\ UNCHANGED addressVars
             \/ AddressesNext /\ UNCHANGED syncVars
RelaySpec == RelayInit /\ [][RelayNext]_<<syncVars, addressVars>> /\ Fairness /\ AddressesFairness

\* The variables of both keep their types.
RelayTypeOK == SyncTypeOK /\ AddressesTypeOK
=============================================================================
