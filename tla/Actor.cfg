\* One outside thread and the owner, three SendMessage calls each.
SPECIFICATION Spec
CONSTANTS
  Threads = {t1}
  Owner = logic
  MaxSends = 3
INVARIANTS
  ActorInv
  

  
