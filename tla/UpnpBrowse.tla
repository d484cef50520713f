----------------------------- MODULE UpnpBrowse -----------------------------
(***************************************************************************)
(* Browsing a UPnP server (mafw-upnp-source.c).  The container is fetched  *)
(* in slices, one action of the server at a time; each answer hands its    *)
(* items to the callback at once and asks for the next slice or ends.  An  *)
(* operation is a BrowseArgs; it lives as long as its action is pending,   *)
(* so there is a pending action in every one between two handlers.         *)
(***************************************************************************)
EXTENDS BrowseResult

CONSTANT Slice   \* DEFAULT_REQUESTED_COUNT
ASSUME SliceAssumption == Slice \in Nat \ {0}

Unknown == -1    \* remaining_count = UINT_MAX: no answer has come yet

UpnpStart(req) ==
  Outcome([skip |-> req.skip, count |-> req.count, current |-> 0,
           remaining |-> Unknown], <<>>)

\* remaining_count when an answer tells that the container has total items
Remaining(a, total) ==
  IF a.remaining # Unknown THEN a.remaining
  ELSE IF a.count = 0 \/ total < a.count THEN total ELSE a.count

\* browse_args_unref to 0: what was promised and not delivered is cut off
Unref(a, says, last) ==
  Outcome(Over, IF a.remaining # 0 THEN Append(says, last) ELSE says)

(* Gives the n items of an answer to the callback, unless enough were.     *)
Parsed(a, n) ==
  LET k == Least(n, a.remaining) IN
  [a |-> [a EXCEPT !.current = @ + k, !.remaining = @ - k],
   says |-> [i \in 1 .. k |-> Result(a.remaining - i, a.current + i - 1,
                                     a.skip + a.current + i)]]

GotAll(a) == a.count # 0 /\ a.current >= a.count - 1

(* An answer of n items: the rest is asked for unless nothing remains, the *)
(* answer was empty, or what was asked for was delivered.                  *)
Answered(a0, stock, n) ==
  LET p == Parsed([a0 EXCEPT !.remaining = Remaining(a0, stock)], n)
      a == p.a
  IN  IF a.remaining = 0 THEN Unref(a, p.says, Nothing(0))
      ELSE IF n = 0 THEN Unref(a, Append(p.says, Nothing(0)), Nothing(0))
      ELSE IF GotAll(a) THEN Unref(a, p.says, Nothing(0))
      ELSE Outcome(a, p.says)

\* the action failed (total_matches stays 0 if it was the first), or the
\* container is empty
Failed(a, total, says) ==
  Outcome(Over, IF Remaining(a, total) > 0 THEN <<says>> ELSE <<>>)

(* What the answer to the pending action can be (external: the server      *)
(* returns some of the items asked for, at least one if there is one) and  *)
(* what mafw_upnp_source_browse_cb makes of it.                            *)
UpnpSteps(a, stock) ==
  LET have == stock - (a.skip + a.current)
      asked == IF a.count = 0 THEN Slice ELSE Least(Slice, a.count)
      most == IF have < 0 THEN 0 ELSE Least(have, asked)
  IN  {Failed(a, IF a.remaining = Unknown THEN 0 ELSE stock, Failure)}
      \cup (IF stock = 0 THEN {Failed(a, 0, Nothing(0))}
            ELSE {Failed(a, stock, Failure)}   \* cannot be parsed
                 \cup {Answered(a, stock, n) : n \in Least(1, most) .. most})

\* the action is cancelled and the last reference dropped; err when the
\* server has left, see mafw_upnp_source_device_proxy_unavailable
UpnpCancel(a, err) == Unref(a, <<>>, IF err THEN Failure ELSE Nothing(0))
=============================================================================
