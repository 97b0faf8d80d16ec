--------------------------- MODULE MCSubscription ---------------------------
(***************************************************************************)
(* Small instances of Subscription.  Orders, keys and requests are         *)
(* interchangeable.  Webhooks arrive in the first half of the first        *)
(* window: what they change, the clock does not reach.                     *)
(***************************************************************************)
EXTENDS Subscription, TLC

\* Bound of the run: no event of the gateway is announced, or still repeated,
\* after the instant 1.
WebhooksEarly == now > 1 => hooks = {}

Symmetry == Permutations(Orders) \union Permutations(Keys) \union Permutations(Requests)
=============================================================================
