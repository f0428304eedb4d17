-------------------------------- MODULE MCTalk --------------------------------
EXTENDS Talk
\* A Claude model and one of Copilot, as a planning bucket might hold them.
SmallRoute == <<[provider |-> "claude", model |-> "m1"], [provider |-> "copilot", model |-> "m2"]>>
\* A ticket behind the first one.
SmallPlans == {<<<<>>, <<1>>>>}
SmallDrafts == {[says |-> "this", keep |-> {"p1"}], [says |-> "that", keep |-> {"p2"}]}
==============================================================================
