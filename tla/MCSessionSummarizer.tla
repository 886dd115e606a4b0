------------------------- MODULE MCSessionSummarizer -------------------------
(* Instances of SessionSummarizer for TLC. *)
EXTENDS SessionSummarizerProperties, TLC

CONSTANTS s1, s2, s3, s4, u1, u2, j1, j2

G(s, u, j) == [session |-> s, user |-> u, project |-> j]

\* Three summarised sessions, as many as the query returns: one goes on in a
\* second project, one the model answers for no more.  And one session id of
\* two users, the turns of one of them too long for the model.
Mixed == {G(s1, u1, j1), G(s1, u1, j2), G(s2, u1, j1), G(s2, u2, j1),
          G(s3, u1, j1), G(s4, u1, j1)}
MixedSummaries == [g \in {G(s1, u1, j1), G(s3, u1, j1), G(s4, u1, j1)} |->
                     CASE g.session = s1 -> 1 [] g.session = s3 -> 2 [] g.session = s4 -> 3]
Huge  == {G(s2, u2, j1)}
Stuck == {G(s3, u1, j1)}

\* As many summarised sessions of one user as the query returns, and one more.
Backlog == {G(s, u1, j1) : s \in {s1, s2, s3, s4}}
OldSummaries == [g \in Backlog |-> CASE g.session = s1 -> 1 [] g.session = s2 -> 2
                                      [] g.session = s3 -> 3 [] g.session = s4 -> 4]
=============================================================================
