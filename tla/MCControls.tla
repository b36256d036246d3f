----------------------------- MODULE MCControls -----------------------------
EXTENDS Controls

MCRegisters == {c.register : c \in Catalogue}
MCClasses == {12, 24, 48}
\* Nothing set, everything set, two mixed patterns.
MCStartWords == {0, 65535, 43605, 5140}
MCPlainWord == {43605}
=============================================================================
