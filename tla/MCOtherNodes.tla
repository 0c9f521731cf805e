---------------------------- MODULE MCOtherNodes ----------------------------
(***************************************************************************)
(* The programs beside the C node, each on its own: which one runs is      *)
(* chosen at the start.  The app runs twice: with two devices and all its  *)
(* operations, and with a third device, but then nobody is dialled again,  *)
(* so that a loop over the nodes gets long.  The pages run twice: with     *)
(* three sockets, failures and no packets; and with a fourth socket and    *)
(* packets, when no connection fails.                                      *)
(***************************************************************************)
EXTENDS AppMesh, AppSeenCache, WsRelay, AndroidSeenCache

CONSTANTS third, g1, g2, m1, m2

VARIABLE program

mcVars == <<appVars, cacheVars, wsVars, androidVars, program>>

TwoDevices == dialling'[third] = 0

ThreeDevices == \A d \in heard : dialling'[d] = 0

\* The pages are alike: g1 is the one that connects first.
ThreeSockets ==
    /\ owner'[1] # g2
    /\ owner'[4] = NoPage
    /\ \A m \in Msg : author'[m] = NoPage

(* g2 keeps socket 1, over which it sends m2.  g1 makes the other three,    *)
(* sends m1, and closes one of them: so it can have two open at a time, get *)
(* m1 back, and m2 in between.                                              *)
TwoPackets ==
    /\ \A s \in Socket : /\ end'[s] \in {"none", "open"}
                         /\ sock'[s] = "closed" => sock[s] \in {"closing", "closed"}
    /\ owner'[1] # g1 /\ sock'[1] # "closing"
    /\ \A s \in 2 .. 4 : owner'[s] # NoPage => owner'[s] = g1 /\ sock'[1] = "open"
    /\ Cardinality({s \in 2 .. 4 : owner'[s] = g1 /\ sock'[s] \in {"closing", "closed"}}) <= 1
    /\ author'[m1] # g2 /\ author'[m2] # g1
    /\ stale'[g2] = {}

RunsApp == program \in {"app", "app of three"}

MCInit ==
    /\ AppInit /\ CacheInit /\ WsInit /\ AndroidInit
    /\ program \in {"app", "app of three", "app cache", "pages", "packets", "android"}

MCNext ==
    /\ UNCHANGED program
    /\ \/ /\ program = "app"
          /\ AppNext /\ TwoDevices
          /\ UNCHANGED <<cacheVars, wsVars, androidVars>>
       \/ /\ program = "app of three"
          /\ AppNext /\ ThreeDevices
          /\ UNCHANGED <<cacheVars, wsVars, androidVars>>
       \/ /\ program = "app cache"
          /\ CacheNext
          /\ UNCHANGED <<appVars, wsVars, androidVars>>
       \/ /\ program = "pages"
          /\ WsNext /\ ThreeSockets
          /\ UNCHANGED <<appVars, cacheVars, androidVars>>
       \/ /\ program = "packets"
          /\ WsNext /\ TwoPackets
          /\ UNCHANGED <<appVars, cacheVars, androidVars>>
       \/ /\ program = "android"
          /\ AndroidNext
          /\ UNCHANGED <<appVars, cacheVars, wsVars>>

MCSpec == MCInit /\ [][MCNext]_mcVars /\ (RunsApp => AppFairness)

=============================================================================
