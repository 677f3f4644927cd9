---------------------------- MODULE BscExecution ----------------------------
(***************************************************************************)
(* Swaps and supplies on BSC in apps/dashboard/server.mjs: the routes      *)
(* bsc/swap and bsc/yield/execute and the trade of the yield worker.  A    *)
(* planned request reads the wallet, swaps USDT for USDC and supplies what *)
(* it received to a lending protocol, by one executor after another until  *)
(* one of them does not throw.  Nothing excludes two requests.             *)
(*                                                                         *)
(* One wallet plans, swaps and supplies; only these requests change it.    *)
(* The plan counts both coins in one unit; the quote of the swap is at any *)
(* of the Rates, and only the least it delivers is bounded by it.          *)
(***************************************************************************)
EXTENDS Integers, Sequences, FiniteSets

CONSTANTS
    Call,        (* requests *)
    Protocol,    (* the protocol each one supplies to, or "none" *)
    Asked,       (* amounts of direct swaps *)
    Usdt, Usdc,  (* the wallet at the start *)
    Target,      (* targetUsdcBps *)
    MinDrift,    (* minDriftBps *)
    MaxStep,     (* maxStepUsd *)
    Rates,       (* prices of USDT in USDC the swap may be quoted at, in Bps *)
    Slippage,    (* slippageBps *)
    Windfall,    (* bound of the model on what a swap delivers above its quote *)
    MaxSupply,   (* BSC_AAVE_MAX_AMOUNT_RAW and its like *)
    NonceRetry,  (* BSC_EXECUTE_NONCE_RETRY *)
    Config,      (* settings to consider *)
    Routing      (* executors to consider, by protocol *)

(* Shares are in basis points.                                            *)
Bps == 10000

Lenders == {"venus", "aave", "lista", "wombat"}
Settings == [enabled : BOOLEAN, swapVia : {"native", "command"}]

(* The executors a protocol's settings let it try, in their order.  Where  *)
(* the native one is not configured the cascade comes down to the command. *)
Routes(p) ==
    CASE p = "venus" -> {<<"venus">>}
      [] p = "aave"  -> {<<"native">>, <<"command">>}
      [] OTHER       -> {<<"sdk", "native">>, <<"sdk">>, <<"native">>, <<"command">>}

ASSUME BscAssumption ==
    /\ Protocol \in [Call -> Lenders \union {"none"}]
    /\ Asked \subseteq Nat \ {0}
    /\ Usdt \in Nat /\ Usdc \in Nat
    /\ Target \in 0..Bps /\ MinDrift \in Nat /\ MaxStep \in Nat
    /\ Rates \subseteq Nat /\ Slippage \in 0..5000 /\ Windfall \in Nat
    /\ MaxSupply \in Nat /\ NonceRetry \in Nat
    /\ Config \subseteq Settings

ASSUME RoutingAssumption == \A r \in Routing, p \in Lenders : r[p] \in Routes(p)

VARIABLES
    config,     (* the settings the server runs with *)
    routing,
    usdt, usdc, (* the wallet *)
    stage,      (* how far each request is *)
    amount,     (* what it swaps *)
    quote,      (* what the swap was quoted at *)
    tries,      (* its attempts at sending the swap *)
    swap,       (* the swap of each attempt *)
    before,     (* USDC in the wallet when it was read before the swap *)
    supply,     (* what it supplies *)
    attempt,    (* the executor of its supply that works, counted from 1 *)
    lend,       (* the supply of each executor *)
    goal,       (* history: the share of USDC its plan was for *)
    got,        (* history: the USDC its swap delivered *)
    lent,       (* history: the USDC its supplies took *)
    raced,      (* history: a request began beside another one *)
    stray       (* history: a transaction was left that nobody waits for *)

wallet == <<usdt, usdc>>
swapping == <<amount, quote, tries, swap, before>>
lending == <<supply, attempt, lend>>
history == <<goal, got, lent, raced, stray>>
bscVars == <<config, routing, wallet, stage, swapping, lending, history>>

Status == {"none", "pending", "mined", "reverted"}
InFlight == {"planned", "ready", "sent", "swapped", "lent"}
Tries == 0..NonceRetry
Attempts == 1..2

BscTypeOK ==
    /\ config \in Config /\ routing \in Routing
    /\ usdt \in Nat /\ usdc \in Nat
    /\ stage \in [Call -> InFlight \union {"new", "noop", "plan", "executed", "failed", "lost"}]
    /\ amount \in [Call -> Nat] /\ quote \in [Call -> Nat]
    /\ tries \in [Call -> Tries]
    /\ swap \in [Call -> [Tries -> Status]]
    /\ before \in [Call -> Nat]
    /\ supply \in [Call -> Int]
    /\ attempt \in [Call -> Attempts]
    /\ lend \in [Call -> [Attempts -> Status]]
    /\ goal \in [Call -> 0..Bps]
    /\ got \in [Call -> Nat] /\ lent \in [Call -> Nat]
    /\ raced \in BOOLEAN /\ stray \in BOOLEAN

-----------------------------------------------------------------------------
(* The plan.                                                               *)

Least(a, b) == IF a < b THEN a ELSE b

(* The target is raised when lending USDC pays more; when lending USDT     *)
(* pays more the plan is to hold.                                          *)
Goal(apr) == IF apr = "usdc" /\ Target < 8500 THEN 8500 ELSE Target

Share == (usdc * Bps) \div (usdt + usdc)
Gap(g) == ((usdt + usdc) * g) \div Bps - usdc

(* Mutant: the USDC in the wallet is not counted.                          *)
RecommendedFromNothing(g) ==
    IF usdt + usdc = 0 \/ g - Share < MinDrift THEN 0
    ELSE Least(((usdt + usdc) * g) \div Bps, Least(usdt, MaxStep))

(* buildBscYieldPlan: the amount of USDT to swap, 0 to hold.               *)
Recommended(g) ==
    IF \/ usdt + usdc = 0
       \/ g - Share < MinDrift
       \/ g <= Share
    THEN 0
    ELSE Least(IF Gap(g) > 0 THEN Gap(g) ELSE 0, Least(usdt, MaxStep))

(* getBscUsdtUsdcQuote for an amount of USDT; applySlippage to a quote.    *)
QuoteAt(a, rate) == (a * rate) \div Bps
MinOut(q) == (q * (Bps - Slippage)) \div Bps

(* A supply that its executor's validation lets through.                   *)
Valid(s) == s > 0 /\ s <= MaxSupply

RouteOf(c) == routing[Protocol[c]]
Executor(c) == RouteOf(c)[attempt[c]]
Lends(c) == Protocol[c] # "none"

(* Mutant: the quote is taken for it.                                      *)
QuoteReceived(c) == quote[c]

(* What the request takes for the amount it received: the difference of    *)
(* the balances if there is a receipt, else the quote.                     *)
Received(c) ==
    IF config.swapVia = "native" THEN usdc - before[c] ELSE quote[c]

(* Every executor but Venus's returns `ok'.                                *)
SupplyResult(executor) ==
    IF executor = "venus" THEN [status |-> "executed"] ELSE [ok |-> TRUE]

PostActionOk(result) == "ok" \in DOMAIN result /\ result["ok"]

-----------------------------------------------------------------------------
(* A request up to the end of its swap.                                    *)

BscInit ==
    /\ config \in Config /\ routing \in Routing
    /\ usdt = Usdt /\ usdc = Usdc
    /\ stage = [c \in Call |-> "new"]
    /\ amount = [c \in Call |-> 0] /\ quote = [c \in Call |-> 0]
    /\ tries = [c \in Call |-> 0]
    /\ swap = [c \in Call |-> [i \in Tries |-> "none"]]
    /\ before = [c \in Call |-> 0]
    /\ supply = [c \in Call |-> 0]
    /\ attempt = [c \in Call |-> 1]
    /\ lend = [c \in Call |-> [i \in Attempts |-> "none"]]
    /\ goal = [c \in Call |-> 0]
    /\ got = [c \in Call |-> 0] /\ lent = [c \in Call |-> 0]
    /\ raced = FALSE /\ stray = FALSE

Goto(c, at) == stage' = [stage EXCEPT ![c] = at]
Working == {c \in Call : stage[c] \in InFlight}

(* A request begins with what it is to swap; a plan to hold, or over the   *)
(* limit of the protocol, ends it.                                         *)
Begin(c, a, g) ==
    /\ stage[c] = "new"
    /\ IF a > 0 /\ (Protocol[c] \in {"none", "venus"} \/ a <= MaxSupply)
       THEN Goto(c, "planned") ELSE Goto(c, "noop")
    /\ amount' = [amount EXCEPT ![c] = a]
    /\ goal' = [goal EXCEPT ![c] = g]
    /\ raced' = (raced \/ Working # {})
    /\ UNCHANGED <<config, routing, wallet, quote, tries, swap, before, lending, got, lent,
                   stray>>

Plan(c) ==
    \/ \E apr \in {"usdc", "even"} : Begin(c, Recommended(Goal(apr)), Goal(apr))
    \/ Begin(c, 0, 0)

AskSwap(c) == Protocol[c] = "none" /\ \E a \in Asked : Begin(c, a, Bps)

(* The swap is not enabled: the request goes on with the quote.            *)
SkipSwap(c) ==
    /\ stage[c] = "planned"
    /\ ~config.enabled
    /\ \E rate \in Rates : quote' = [quote EXCEPT ![c] = QuoteAt(amount[c], rate)]
    /\ supply' = [supply EXCEPT ![c] = quote'[c]]
    /\ Goto(c, IF Lends(c) THEN "swapped" ELSE "plan")
    /\ UNCHANGED <<config, routing, wallet, amount, tries, swap, before, attempt, lend, history>>

(* The swap is quoted, the balances are read, and the allowance is raised  *)
(* if it is too small.                                                     *)
ReadBefore(c) ==
    /\ stage[c] = "planned"
    /\ config.enabled
    /\ \E rate \in Rates : quote' = [quote EXCEPT ![c] = QuoteAt(amount[c], rate)]
    /\ before' = [before EXCEPT ![c] = usdc]
    /\ Goto(c, "ready")
    /\ UNCHANGED <<config, routing, wallet, amount, tries, swap, lending, history>>

SendSwap(c) ==
    /\ stage[c] = "ready"
    /\ swap' = [swap EXCEPT ![c][tries[c]] = "pending"]
    /\ Goto(c, "sent")
    /\ UNCHANGED <<config, routing, wallet, amount, quote, tries, before, lending, history>>

(* Refused by the node for its nonce or its price: tried again.            *)
SwapRejected(c) ==
    /\ stage[c] = "ready"
    /\ config.swapVia = "native"
    /\ tries[c] < NonceRetry
    /\ tries' = [tries EXCEPT ![c] = @ + 1]
    /\ UNCHANGED <<config, routing, wallet, stage, amount, quote, swap, before, lending,
                   history>>

Swapped(c) == swap[c][tries[c]]

(* The native executor waits for the receipt, the command for its process. *)
FinishSwap(c) ==
    /\ stage[c] = "sent"
    /\ config.swapVia = "native" => Swapped(c) = "mined"
    /\ supply' = [supply EXCEPT ![c] = Received(c)]
    /\ Goto(c, IF Lends(c) THEN "swapped" ELSE "executed")
    /\ stray' = (stray \/ Swapped(c) = "pending")
    /\ UNCHANGED <<config, routing, wallet, swapping, attempt, lend, goal, got, lent, raced>>

(* The quote, its divergence, a read, the broadcast (perhaps after the     *)
(* node took the transaction), the receipt or the command fails.           *)
SwapFails(c) ==
    /\ stage[c] \in {"planned", "ready", "sent"}
    /\ Goto(c, "failed")
    /\ stray' = (stray \/ (stage[c] = "sent" /\ Swapped(c) = "pending"))
    /\ UNCHANGED <<config, routing, wallet, swapping, lending, goal, got, lent, raced>>

-----------------------------------------------------------------------------
(* The supply.                                                             *)

SendSupply(c) ==
    /\ stage[c] = "swapped"
    /\ Valid(supply[c])
    /\ lend' = [lend EXCEPT ![c][attempt[c]] = "pending"]
    /\ Goto(c, "lent")
    /\ UNCHANGED <<config, routing, wallet, swapping, supply, attempt, history>>

(* Mutant: the result of the supply is not looked at.                      *)
SupplyFailsUnseen(c) ==
    /\ stage[c] \in {"swapped", "lent"}
    /\ IF attempt[c] < Len(RouteOf(c))
       THEN attempt' = [attempt EXCEPT ![c] = @ + 1] /\ Goto(c, "swapped")
       ELSE Goto(c, "executed") /\ UNCHANGED attempt
    /\ stray' = (stray \/ (stage[c] = "lent" /\ lend[c][attempt[c]] # "reverted"))
    /\ UNCHANGED <<config, routing, wallet, swapping, supply, lend, goal, got, lent, raced>>

FinishSupply(c) ==
    /\ stage[c] = "lent"
    /\ Executor(c) # "command" => lend[c][attempt[c]] = "mined"
    /\ Goto(c, IF PostActionOk(SupplyResult(Executor(c))) THEN "executed" ELSE "failed")
    /\ stray' = (stray \/ lend[c][attempt[c]] = "pending")
    /\ UNCHANGED <<config, routing, wallet, swapping, lending, goal, got, lent, raced>>

(* The amount is none to supply, or an executor throws, before or after it *)
(* sent: the next one takes its turn.                                      *)
SupplyFails(c) ==
    /\ stage[c] \in {"swapped", "lent"}
    /\ IF attempt[c] < Len(RouteOf(c))
       THEN attempt' = [attempt EXCEPT ![c] = @ + 1] /\ Goto(c, "swapped")
       ELSE Goto(c, "failed") /\ UNCHANGED attempt
    /\ stray' = (stray \/ (stage[c] = "lent" /\ lend[c][attempt[c]] # "reverted"))
    /\ UNCHANGED <<config, routing, wallet, swapping, supply, lend, goal, got, lent, raced>>

(* The process restarts: nothing of a request is kept.                     *)
Restart ==
    /\ Working # {}
    /\ stage' = [c \in Call |-> IF c \in Working THEN "lost" ELSE stage[c]]
    /\ stray' = (stray \/ \E c \in Working :
                    \/ stage[c] = "sent" /\ Swapped(c) = "pending"
                    \/ stage[c] = "lent" /\ lend[c][attempt[c]] = "pending")
    /\ UNCHANGED <<config, routing, wallet, swapping, lending, goal, got, lent, raced>>

-----------------------------------------------------------------------------
(* The chain.  A swap delivers at least minAmountOutRaw, or it reverts.    *)

MineSwap(c, i, out) ==
    /\ swap[c][i] = "pending"
    /\ amount[c] <= usdt
    /\ swap' = [swap EXCEPT ![c][i] = "mined"]
    /\ usdt' = usdt - amount[c]
    /\ usdc' = usdc + out
    /\ got' = [got EXCEPT ![c] = @ + out]
    /\ UNCHANGED <<config, routing, stage, amount, quote, tries, before, lending, goal, lent,
                   raced, stray>>

RevertSwap(c, i) ==
    /\ swap[c][i] = "pending"
    /\ swap' = [swap EXCEPT ![c][i] = "reverted"]
    /\ UNCHANGED <<config, routing, wallet, stage, amount, quote, tries, before, lending,
                   history>>

MineSupply(c, i) ==
    /\ lend[c][i] = "pending"
    /\ supply[c] <= usdc
    /\ lend' = [lend EXCEPT ![c][i] = "mined"]
    /\ usdc' = usdc - supply[c]
    /\ lent' = [lent EXCEPT ![c] = @ + supply[c]]
    /\ UNCHANGED <<config, routing, usdt, stage, swapping, supply, attempt, goal, got, raced,
                   stray>>

RevertSupply(c, i) ==
    /\ lend[c][i] = "pending"
    /\ lend' = [lend EXCEPT ![c][i] = "reverted"]
    /\ UNCHANGED <<config, routing, wallet, stage, swapping, supply, attempt, history>>

Request(c) ==
    \/ Plan(c) \/ AskSwap(c) \/ SkipSwap(c) \/ ReadBefore(c) \/ SendSwap(c)
    \/ SwapRejected(c) \/ FinishSwap(c) \/ SwapFails(c)
    \/ SendSupply(c) \/ FinishSupply(c) \/ SupplyFails(c)

Chain(c) ==
    \/ \E i \in Tries :
          \/ RevertSwap(c, i)
          \/ \E out \in MinOut(quote[c])..(quote[c] + Windfall) : MineSwap(c, i, out)
    \/ \E i \in Attempts : MineSupply(c, i) \/ RevertSupply(c, i)

BscNext == (\E c \in Call : Request(c) \/ Chain(c)) \/ Restart

BscSpec == BscInit /\ [][BscNext]_bscVars

-----------------------------------------------------------------------------
(* Properties.                                                             *)

(* Requests came one at a time and no transaction was left behind.         *)
Undisturbed == ~raced /\ ~stray

(* However often its broadcast is refused, a request swaps at most once    *)
(* (the nonce loop of executeBscSwapViaNativeRpc).                         *)
SwappedOnce == \A c \in Call : Cardinality({i \in Tries : swap[c][i] # "none"}) <= 1

(* Whatever happens beside it, a request that native executors carried out *)
(* and that is answered as executed has swapped, and the executor that     *)
(* ended it has supplied what was announced                                *)
(* (executeBscPostActionSupply, the route bsc/yield/execute).              *)
ExecutedBacked ==
    \A c \in Call :
        stage[c] = "executed" =>
            /\ config.enabled /\ config.swapVia = "native" => Swapped(c) = "mined"
            /\ Lends(c) /\ Executor(c) # "command" =>
                   lend[c][attempt[c]] = "mined" /\ lent[c] >= supply[c]

(* Undisturbed, a request supplies no more than its native swap delivered, *)
(* less than the quote though that may be, whichever executors take a turn *)
(* (the amount computed in the route bsc/yield/execute).                   *)
SupplyCovered ==
    Undisturbed /\ config.enabled /\ config.swapVia = "native" =>
        \A c \in Call : lent[c] <= got[c]

(* Undisturbed, a planned swap does not spend the USDT that the target it  *)
(* was planned for leaves: its share of what the wallet holds when the     *)
(* swap is applied, whatever price it gets (buildBscYieldPlan).            *)
ReserveKept ==
    [][\A c \in Call, i \in Tries :
         Undisturbed /\ swap[c][i] = "pending" /\ swap'[c][i] = "mined" =>
             usdt' * Bps >= (Bps - goal[c]) * (usdt + usdc)]_bscVars
=============================================================================
