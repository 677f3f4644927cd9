---------------------------- MODULE MCExecutors ----------------------------
(* A small instance of Executors.                                           *)
EXTENDS Executors, TLC

CONSTANTS dep1, dep2, r1, r2, r3, d1, d2, c1, c2

(* The largest deposit allowed, which fills a day's cap, and a smaller one. *)
MCAmount == dep1 :> 1 @@ dep2 :> 2

(* The SDK with its fallback, and the native executor alone.                *)
MCSetting == {[useSdk |-> sdk, fallback |-> sdk] : sdk \in BOOLEAN}

(* One request supplies to Lista, with a cascade of two executors or one of *)
(* either kind; the other is a trade of the worker or a direct swap.        *)
MCProtocol == c1 :> "lista" @@ c2 :> "none"
MCConfig == {s \in Settings : s.enabled \/ s.swapVia = "native"}
MCRouting ==
    {"venus" :> <<"venus">> @@ "aave" :> <<"native">> @@ "wombat" :> <<"native">>
         @@ "lista" :> lista : lista \in Routes("lista") \ {<<"sdk">>}}
=============================================================================
