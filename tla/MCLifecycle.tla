----------------------------- MODULE MCLifecycle -----------------------------
(* TLC instances of Lifecycle: sets of inputs. *)
EXTENDS Lifecycle, TLC

HandlerSymmetry == Permutations(Handlers)
Everything == Events \cup Requests \cup Admin
Payments == {"invoice.paid", "subscription.updated", "payment_failed"}
PaymentsAndEnds == Payments \cup {"cancel_now", "subscription.deleted"}
=============================================================================
