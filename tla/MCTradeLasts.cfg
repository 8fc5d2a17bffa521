SPECIFICATION Spec
CONSTANTS
    Players = {p1}
    Item1 = sword
    Item2 = shield
    Items = {sword, shield}
    Store = Store
    Value <- MCValue
    BuyPrice <- MCBuyPrice
    SellPrice <- MCSellPrice
    MealPrice = 1
    ShopTerms <- MCShopTerms
    BankTerms <- MCBankTerms
    Fee = 30
    MaxWorth = 7
    MaxMeals = 2
    MaxDying = 2
CHECK_DEADLOCK FALSE
PROPERTY
    ChangeLasts
