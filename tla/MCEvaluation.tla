----------------------------- MODULE MCEvaluation -----------------------------
(* An instance of Evaluation for TLC: config/llm/routing.yaml's tasks, and a  *)
(* suite of two cases, one of them of two turns.                              *)
EXTENDS Evaluation

TwoProviders == {"anthropic", "openai"}
NoCandidate  == [provider |-> "nobody", model |-> "none"]
On(p, m)     == [provider |-> p, model |-> m]
RoutingYaml  ==
    [composition |-> <<On("anthropic", "sonnet"), On("openai", "sol")>>,
     extraction  |-> <<On("anthropic", "haiku"), On("openai", "luna")>>,
     grading     |-> <<On("anthropic", "opus"), On("openai", "sol")>>]
TwoCases     == <<2, 1>>
=============================================================================
