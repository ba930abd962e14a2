----------------------------- MODULE MCRadioCom -----------------------------
EXTENDS RadioCom

CONSTANTS a, b

Wixels == {a, b}
PerNode(x, y) == [n \in Node |-> IF n = a THEN x ELSE y]
None == PerNode(0, 0)
Once == PerNode(1, 1)
OneFromA == PerNode(1, 0)
TwoFromA == PerNode(2, 0)
ThreeFromA == PerNode(3, 0)
ReceiverRestarts == PerNode(1, 2)
SenderRestarts == PerNode(2, 1)

=============================================================================
