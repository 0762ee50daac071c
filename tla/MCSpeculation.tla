--------------------------- MODULE MCSpeculation ---------------------------
EXTENDS Speculation

\* Both proposers; a history that is kept, one that is cut to three tokens and
\* one to five; windows without, with and with nothing but pinned slots.
MCConfigs ==
    {[proposer |-> "suffix", maxHistory |-> h, maxSize |-> 3, keep |-> 1] : h \in {0, 3, 5}}
    \cup {[proposer |-> "lookup", maxHistory |-> 0, maxSize |-> w[1], keep |-> w[2]] :
             w \in {<<0, 0>>, <<2, 0>>, <<3, 1>>, <<4, 2>>, <<2, 2>>}}
=============================================================================
