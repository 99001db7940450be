------------------------------ MODULE MCPageFetch -------------------------------
(* A small instance of PageFetch for TLC: one URL of every kind, and every     *)
(* setting of the switches that changes what is asked of whom.                 *)
EXTENDS PageFetch

\* Everything on; no token and no TikTok; pages off, with and without a token; no Meta.
Deployments ==
    {[tiktok |-> TRUE, meta |-> TRUE, pages |-> TRUE, token |-> TRUE],
     [tiktok |-> FALSE, meta |-> TRUE, pages |-> TRUE, token |-> FALSE],
     [tiktok |-> TRUE, meta |-> TRUE, pages |-> FALSE, token |-> TRUE],
     [tiktok |-> FALSE, meta |-> TRUE, pages |-> FALSE, token |-> FALSE],
     [tiktok |-> TRUE, meta |-> FALSE, pages |-> TRUE, token |-> FALSE]}
=============================================================================
