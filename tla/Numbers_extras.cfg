SPECIFICATION NumbersSpec
CONSTANTS
  MaxDigits = 4
  HalfDigits = 2
  PowerBits = 4
  MaxPower = 8
  Texts <- SomeTexts
CHECK_DEADLOCK FALSE
INVARIANT ExtrasCannotMatter
