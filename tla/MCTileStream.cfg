CONSTANTS
    Pairs <- MCPairs
    Tiles <- MCTiles
    Tex <- MCTex
    Locals = {32768, 32769, 60000}
SPECIFICATION Spec
INVARIANTS Applied Saved Reapplied Accepted
