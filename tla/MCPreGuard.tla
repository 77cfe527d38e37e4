----------------------------- MODULE MCPreGuard -----------------------------
\* Two macros, so that a second #ifndef can name the wrong one; one of them
\* is predefined, so that it comes back with the next source file.
EXTENDS PreGuard

CONSTANTS g, h

MCMacros == {g, h}
MCBuiltin == {h}
MCConds == {{{}, {h}}}
\* Groups open in the source file, in the header.
MCMaxNest == <<0, 2>>
=============================================================================
