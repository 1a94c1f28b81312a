----------------------------- MODULE MCHandlers -----------------------------
EXTENDS Handlers, TLC
CONSTANTS color, plain, file
MCHandlerSet == {color, plain, file}
MCKind == color :> "color" @@ plain :> "plain" @@ file :> "file"
=============================================================================
