------------------------------- MODULE MCProvider -------------------------------
(* One state space for the two halves of a provider: a request's way through its *)
(* calls, and the reading of a page that has a post.  They share no state, so     *)
(* each moves only while the other is where it begins: what there is to look at   *)
(* is the sum of the two, not their product.                                      *)
EXTENDS MCPageFetch, PageScan

\* Every byte the scanner tells apart.
Glyphs == {"{", "}", "/", "n", Quote, Back, Newline}

\* One of the pages that may be about to arrive.
Unread == body = <<>> /\ page = InPage(Keys[1], Post(<<>>, FALSE))

ProviderInit == Init /\ ScanInit

ProviderNext ==
    \/ Next /\ Unread /\ UNCHANGED scanVars
    \/ ScanNext /\ Init /\ UNCHANGED vars
    \/ body = page /\ UNCHANGED <<vars, scanVars>>

ProviderSpec == ProviderInit /\ [][ProviderNext]_<<vars, scanVars>> /\ WF_vars(Work)

=============================================================================
