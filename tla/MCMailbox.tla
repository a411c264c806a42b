------------------------------ MODULE MCMailbox -----------------------------
EXTENDS Mailbox

CONSTANTS c1, c2

MCCPU == {c1, c2}
\* Two VMs send to VM 2, which sends to VM 3, whose id is MaxVms.
MCLinks == {<<1, 2>>, <<3, 2>>, <<2, 3>>}
=============================================================================
