---------------------------- MODULE MCSiteRequests ----------------------------
(* A finite instance of SiteRequests for TLC. *)
EXTENDS SiteRequests, TLC

CONSTANTS c1, c2, c3, c4, c5, o1, o2

\* Two account requests and a deferred signature of one site, an account
\* request and a typed message of another.
SitesOriginOf == (c1 :> o1) @@ (c2 :> o1) @@ (c3 :> o1) @@ (c4 :> o2) @@ (c5 :> o2)
SitesKindOf == (c1 :> "accounts") @@ (c2 :> "accounts") @@ (c3 :> "personal")
               @@ (c4 :> "accounts") @@ (c5 :> "typed")
=============================================================================
