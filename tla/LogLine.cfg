SPECIFICATION Spec
CONSTANTS
  FieldHalf = 8
  Formats <- MCFormats
  BufSizes = {1, 5}
  DynValues <- MCDynValues
  StrLens = {0, 3}
  Printed <- MCPrinted
  MaxStrCache = 1
INVARIANTS
  TypeOK PassesAgree ConstArgsFit SlotsInStep OwnArguments StringsWhole LineIsCutText
