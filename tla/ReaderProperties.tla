--------------------------- MODULE ReaderProperties ---------------------------
(* What the reader promises of what it returns.                            *)
EXTENDS RegistryReader

\* "authenticated reads": whoever began the authentication, what a read
\* returns comes from a block at which the registry is the trusted one, and a
\* snapshot is of that one block, although its header, its authentication and
\* its reads are separate calls and the chain grows in between.
ReadsAreAuthenticated ==
    pinned =>
        /\ \A r \in Read : stage[r] = "done" => wrong[block[r]] = {}
        /\ \A r \in Snapshot \cup Value :
              stage[r] = "done" => \A p \in parts(r) : got[r][p] = block[r]

\* A listing is the whole list of its block in order, however many pages it
\* took; even of a node that answers from other blocks than asked no listing
\* with a repeated or missing entry is accepted.
ListingIsComplete ==
    \A r \in Listing :
        stage[r] = "done" =>
            /\ pinned => addresses[r] = members[block[r]]
            /\ Len(addresses[r]) = count[r]
            /\ \A i, j \in 1 .. count[r] :
                  addresses[r][i] = addresses[r][j] => i = j

\* "shares only in-flight checks and retries every later operation"
\* (queries.test.ts): a read never relies on an authentication whose result
\* was out before it began, be it a success or a failure.
OnlyInFlightShared ==
    [][\A r \in Read : via[r] = None /\ via'[r] # None => ~settled[via'[r]]]_vars

\* If every call to the node settles, so does every read, also one that waits
\* for an authentication it did not begin.
ReadsSettle ==
    \A r \in Read : stage[r] # "idle" ~> stage[r] \in {"done", "failed"}
=============================================================================
