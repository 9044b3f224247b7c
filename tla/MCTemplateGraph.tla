--------------------------- MODULE MCTemplateGraph ---------------------------
EXTENDS TemplateGraph, TLC
\* The names of wrappers are interchangeable, and so are those of the two
\* kinds of templates.
Symmetry == Permutations(Wrappers) \cup Permutations(Templates \ (FunctionTemplates \cup InnerTemplates))
==============================================================================
