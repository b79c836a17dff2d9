SPECIFICATION System

   
PROPERTIES
   LiveDataKept
CHECK_DEADLOCK FALSE
