--------------------------- MODULE MCBrowserTabs ---------------------------
(* Small instances of BrowserTabs for TLC. *)
EXTENDS BrowserTabs, TLC

CONSTANTS b, r1, r2, t1, t2

\* Both tabs belong to one browser, and each makes one request at a time.
OneJar == [r \in Requests |-> b]
OneBrowser == [t \in Tabs |-> b]
OneTabEach == r1 :> t1 @@ r2 :> t2

\* One tab with its request is as good as the other with its own.
Swap == r1 :> r2 @@ r2 :> r1 @@ t1 :> t2 @@ t2 :> t1
Interchangeable == Permutations(Emails) \union Permutations(Tokens) \union {Swap}
=============================================================================
