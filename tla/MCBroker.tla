------------------------------ MODULE MCBroker ------------------------------
(* Instances of BrokerClient.                                              *)
EXTENDS BrokerClient

Links == {"good", "noHref", "noUrl", "malformed"}

MCDocuments ==
  [index    |-> {NoLinks} \cup [{"pb:latest-provider-pacts",
                                 "pb:provider-pacts-for-verification"} -> Links],
   latest   |-> {NoLinks} \cup [{"pacts"} -> {"good", "malformed"}],
   entry    |-> {NoLinks} \cup [{"self"} -> Links \cup {"relative"}],
   provider |-> {NoLinks, [name \in {"pb:branch-version"} |-> "good"]}
                  \cup [{"pb:branch-version", "pb:version-tag"} -> {"good", "relative", "noHref", "noUrl"}]]

UpTo(n, S) == UNION {[1..k -> S] : k \in 0..n}

MCLists ==
  [latest    |-> UpTo(3, {"good", "noHref", "noUrl"}),
   selection |-> UpTo(2, {"good", "noHref", "noSelf"}) \cup [1..3 -> {"good", "noUrl"}]]

PactLinks ==
  {[name \in {"pb:provider", "pb:publish-verification-results"} |-> "good"],
   [name \in {"pb:provider"} |-> "good"],
   [name \in {"pb:publish-verification-results"} |-> "good"],
   [name \in {"pb:provider", "pb:publish-verification-results"} |->
      IF name = "pb:provider" THEN "noHref" ELSE "good"],
   [name \in {"pb:provider", "pb:publish-verification-results"} |->
      IF name = "pb:provider" THEN "relative" ELSE "noHref"]}

Fetch(op) == [op |-> op, branch |-> FALSE, tags |-> 0, links |-> NoLinks, results |-> <<>>]

\* Every list of results, for a pact that cannot be published, and every way
\* to publish.
MCJobs ==
  {Fetch("latest"), Fetch("dynamic")}
  \cup [op : {"publish"}, branch : {FALSE}, tags : {0}, links : {NoLinks},
        results : UpTo(3, [id : {"", "a", "b"}, says : {"passed", "mismatch", "error", "nothing"}])]
  \cup [op : {"publish"}, branch : BOOLEAN, tags : 0..2,
        links : PactLinks, results : {<<[id |-> "a", says |-> "passed"]>>}]
=============================================================================
