\* One sheet, of two heights.
CONSTANTS
  Details = {"short", "tall"}
  HeightOf <- DetailHeights
SPECIFICATION MotionSpec
PROPERTIES ClosesWhenAsked
CHECK_DEADLOCK FALSE
