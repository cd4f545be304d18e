----------------------------- MODULE MCArqLink ------------------------------
\* One direction of the ARQ on a small instance.
EXTENDS ArqLink

MCPayloads == 0 .. (MaxPackets - 1)
MCPackets == Frames
=============================================================================
